---- MODULE Spec2Model ----
(***************************************************************************)
(* A model of the abcode binary codec (src/src/ser, src/src/de).           *)
(*                                                                         *)
(* Two specifications share the variables below:                           *)
(*   SpecBuf  the in-memory path: serialize_into_buffer steps a value's    *)
(*            sink calls through the BufferSink, then deserialize_buffer   *)
(*            decodes the bytes; serialize_on_buffer over a caller's       *)
(*            buffer; the ser and the de Config builders;                  *)
(*            deserialize_buffer of a caller's bytes; the reads of a       *)
(*            BufferSource;                                                *)
(*   Spec     a streaming session: either Config::serialize (blocking      *)
(*            traversal with a ChannelSink, byte queue, write backend) or  *)
(*            Config::deserialize (blocking traversal with a ChannelSource,*)
(*            request and response queues, read backend), each with its    *)
(*            orchestrator; and deserialize_buffer of the same inputs.     *)
(* Bytes are the integers 0..255; every width is the width of the code, and *)
(* the program's integers are kept whole (sign and base-65536 magnitude).  *)
(***************************************************************************)
EXTENDS Integers, Sequences, FiniteSets, TLC

(* ------------------------------ bounds -------------------------------- *)

\* The most elements a generated sequence or map holds.
MaxLen == 2

\* The largest queue depth (channel_limit, request_channel_limit,
\* response_channel_limit) a configuration is drawn with.
MaxQueue == 2

\* The largest write batch size (batch_limit) a configuration is drawn with.
MaxBatch == 2

(* ------------------------------ helpers ------------------------------- *)

Min(a, b) == IF a < b THEN a ELSE b

(* ------------------------- the program's integers --------------------- *)

\* An integer of the program (u8 .. u128, i8 .. i128, usize, a code point):
\* its sign and its magnitude, the magnitude in base 65536 with the least
\* significant limb first and no zero limb at the top.  The integer is
\*   (IF neg THEN -1 ELSE 1) * (mag[1] + 65536 * mag[2] + 65536^2 * mag[3] + ...)
\* and zero is the empty magnitude.  (TLC's own integers are 32 bits wide,
\* the program's up to 128.)
RECURSIVE Limbs(_)
Limbs(k) == IF k = 0 THEN <<>> ELSE <<k % 65536>> \o Limbs(k \div 65536)

\* The program's integer of a literal of the model.
Num(i) == [neg |-> i < 0, mag |-> Limbs(IF i < 0 THEN -i ELSE i)]

\* Whether an integer lies strictly between -2^31 and 2^31, and then its
\* value: an index or a count the model works with.
IsSmall(x) == Len(x.mag) <= 1 \/ (Len(x.mag) = 2 /\ x.mag[2] < 32768)
Small(x) ==
    LET m == IF x.mag = <<>> THEN 0
             ELSE IF Len(x.mag) = 1 THEN x.mag[1]
             ELSE x.mag[1] + 65536 * x.mag[2]
    IN IF x.neg THEN -m ELSE m

\* a < b on magnitudes, x < y on integers.
RECURSIVE MagLess(_, _)
MagLess(a, b) ==
    IF Len(a) # Len(b) THEN Len(a) < Len(b)
    ELSE IF a = <<>> THEN FALSE
    ELSE LET n == Len(a)
         IN IF a[n] # b[n] THEN a[n] < b[n]
            ELSE MagLess(SubSeq(a, 1, n - 1), SubSeq(b, 1, n - 1))
Less(x, y) ==
    IF x.neg # y.neg THEN x.neg
    ELSE IF x.neg THEN MagLess(y.mag, x.mag) ELSE MagLess(x.mag, y.mag)

\* x - 1 for a positive x (a count of elements still to read).
RECURSIVE MagPred(_)
MagPred(mag) ==
    IF mag[1] > 0
    THEN (IF Len(mag) = 1 /\ mag[1] = 1 THEN <<>> ELSE <<mag[1] - 1>> \o Tail(mag))
    ELSE <<65535>> \o MagPred(Tail(mag))
Pred(x) == [neg |-> FALSE, mag |-> MagPred(x.mag)]

\* The w low bytes of a magnitude, least significant first.
MagBytes(mag, w) ==
    [i \in 1..w |-> LET j == (i + 1) \div 2
                        limb == IF j <= Len(mag) THEN mag[j] ELSE 0
                    IN IF i % 2 = 1 THEN limb % 256 ELSE limb \div 256]

\* The magnitude of a little-endian byte string.
RECURSIVE MagOf(_)
MagOf(bs) ==
    IF bs = <<>> THEN <<>>
    ELSE LET rest == MagOf(SubSeq(bs, 3, Len(bs)))
             limb == bs[1] + (IF Len(bs) >= 2 THEN 256 * bs[2] ELSE 0)
         IN IF rest = <<>> /\ limb = 0 THEN <<>> ELSE <<limb>> \o rest

\* Two's complement negation of a little-endian byte string.
RECURSIVE Negate(_)
Negate(bs) ==
    IF bs = <<>> THEN <<>>
    ELSE IF Head(bs) = 0 THEN <<0>> \o Negate(Tail(bs))
    ELSE <<256 - Head(bs)>> \o [i \in 1..(Len(bs) - 1) |-> 255 - bs[i + 1]]

\* to_le_bytes of an unsigned integer of w bytes.
LE(n, w) == MagBytes(n.mag, w)

\* A bug: a signed integer is written as its magnitude.
LESigned_magnitude(n, w) == MagBytes(n.mag, w)

\* to_le_bytes of a signed integer of w bytes: two's complement.
LESigned(n, w) ==
    IF n.neg THEN Negate(MagBytes(n.mag, w)) ELSE MagBytes(n.mag, w)

\* from_le_bytes, unsigned.
FromLE(bs) == [neg |-> FALSE, mag |-> MagOf(bs)]

\* from_le_bytes, signed: the top bit of the last byte is the sign.
FromLESigned(bs) ==
    IF bs[Len(bs)] >= 128 THEN [neg |-> TRUE, mag |-> MagOf(Negate(bs))]
    ELSE FromLE(bs)

\* recv_usize: recv_u64, then usize::try_from, which never fails where
\* usize is 64 bits wide.
recv_usize(bs) == FromLE(bs)

RECURSIVE Concat(_)
Concat(ss) == IF ss = <<>> THEN <<>> ELSE Head(ss) \o Concat(Tail(ss))

IsPrefix(p, s) == Len(p) <= Len(s) /\ SubSeq(s, 1, Len(p)) = p

\* All sequences over S of length at most n.
SeqsUpTo(S, n) == UNION {[1..m -> S] : m \in 0..n}

(* --------------------- results (Result<_, Error>) --------------------- *)

\* A result or error kind, with the error's payload where it has one
\* (ExpectedEof(u8), InvalidCodePoint(u32), BufLimitTooLow(usize)) and zero
\* where it has none.
R(kind, payload) == [k |-> kind, n |-> payload]
Running == R("running", Num(0))
Ok == R("Ok", Num(0))
Panic == R("panic", Num(0))
Err(kind) == R(kind, Num(0))

(* ------------------------ values and shapes --------------------------- *)

\* A value: its type tag t, its payload n (a scalar's integer, 0 or 1 for
\* false or true and for an absent or present option, a variant's index,
\* zero otherwise), its children k (elements,
\* fields, alternating keys and values, a variant's payload) and, for a
\* sequence or map, whether its Serialize impl reports its length (h).
V(tag, payload, kids, hint) == [t |-> tag, n |-> payload, k |-> kids, h |-> hint]

\* A shape (the Deserialize target type): tag and child shapes.  seq: the
\* element shape; map: key and value shape; tuple: the fields; opt: the
\* payload; enum: one payload shape per variant, in declaration order.
Sh(tag, kids) == [t |-> tag, k |-> kids]

SignedTags == {"i8", "i16", "i32", "i64", "i128"}
UnsignedTags == {"u8", "u16", "u32", "u64", "u128"}
ScalarTags == {"bool", "char"} \cup SignedTags \cup UnsignedTags

\* The value with every length hint known: what a decoder returns, and the
\* codec's notion of the value (the hint belongs to the Serialize impl).
RECURSIVE Known(_)
Known(v) == [v EXCEPT !.h = TRUE, !.k = [i \in 1..Len(v.k) |-> Known(v.k[i])]]

\* Whether a value contains a sequence or map of unknown length.
RECURSIVE HasUnknown(_)
HasUnknown(v) == (~v.h) \/ (\E i \in 1..Len(v.k) : HasUnknown(v.k[i]))

\* Whether a value contains a node whose Serialize impl panics or fails.
RECURSIVE HasFault(_)
HasFault(v) == v.t \in {"panic", "custom", "skip"}
               \/ (\E i \in 1..Len(v.k) : HasFault(v.k[i]))

\* Whether a shape contains a type whose Deserialize impl panics or fails.
RECURSIVE ShapeHasFault(_)
ShapeHasFault(s) == s.t \in {"panic", "custom"}
                    \/ (\E i \in 1..Len(s.k) : ShapeHasFault(s.k[i]))

(* ----------------- the Serializer: a value's sink calls --------------- *)

\* One call on the SerializationSink, or the end of the traversal by a panic
\* or an error of the value's own Serialize impl.
WriteRaw(data) == [op |-> "write_raw", data |-> data, known |-> TRUE, n |-> 0, e |-> "none"]
BeginVar(known, len) == [op |-> "begin_var", data |-> <<>>, known |-> known, n |-> len, e |-> "none"]
AdvanceVar == [op |-> "advance_var", data |-> <<>>, known |-> TRUE, n |-> 0, e |-> "none"]
EndVar == [op |-> "end_var", data |-> <<>>, known |-> TRUE, n |-> 0, e |-> "none"]
PanicEv == [op |-> "panic", data |-> <<>>, known |-> TRUE, n |-> 0, e |-> "panic"]
FailEv(kind) == [op |-> "fail", data |-> <<>>, known |-> TRUE, n |-> 0, e |-> kind]

\* send_bool .. send_char: the primitive helpers, all send_raw_data of the
\* little-endian bytes.
ScalarBytes(v) ==
    CASE v.t = "bool" -> LE(v.n, 1)
      [] v.t = "u8"   -> LE(v.n, 1)
      [] v.t = "i8"   -> LESigned(v.n, 1)
      [] v.t = "u16"  -> LE(v.n, 2)
      [] v.t = "i16"  -> LESigned(v.n, 2)
      [] v.t = "u32"  -> LE(v.n, 4)
      [] v.t = "i32"  -> LESigned(v.n, 4)
      [] v.t = "u64"  -> LE(v.n, 8)
      [] v.t = "i64"  -> LESigned(v.n, 8)
      [] v.t = "u128" -> LE(v.n, 16)
      [] v.t = "i128" -> LESigned(v.n, 16)
      [] v.t = "char" -> LE(v.n, 4)

\* A bug: the discriminator is written as one byte.
serialize_variant_index_narrow(variant_index) == LE(variant_index, 1)

\* serialize_unit_variant .. serialize_struct_variant: send_u32 of the
\* variant's index.
serialize_variant_index(variant_index) == LE(variant_index, 4)

\* A bug: a skipped field is passed over and the traversal goes on.
skip_field_ignored == WriteRaw(<<>>)

\* SerializeStruct::skip_field, SerializeStructVariant::skip_field.
skip_field == FailEv("SkipNotAllowed")

\* The sink calls value.serialize(&mut serializer) makes, in order.
RECURSIVE Events(_)
RECURSIVE EventsOfAll(_)
RECURSIVE EventsOfElems(_, _)
EventsOfAll(vs) == IF vs = <<>> THEN <<>> ELSE Events(Head(vs)) \o EventsOfAll(Tail(vs))
\* SerializeSeq::serialize_element / SerializeMap::serialize_key, _value:
\* advance_var before every element (per is 1) or every key (per is 2).
EventsOfElems(vs, per) ==
    IF vs = <<>> THEN <<>>
    ELSE <<AdvanceVar>> \o EventsOfAll(SubSeq(vs, 1, per))
         \o EventsOfElems(SubSeq(vs, per + 1, Len(vs)), per)
Events(v) ==
    CASE v.t \in ScalarTags -> <<WriteRaw(ScalarBytes(v))>>
      [] v.t = "unit"    -> <<>>
      [] v.t = "opt"     -> IF v.n = Num(0) THEN <<WriteRaw(<<0>>)>>
                            ELSE <<WriteRaw(<<1>>)>> \o EventsOfAll(v.k)
      [] v.t = "seq"     -> <<BeginVar(v.h, Len(v.k))>> \o EventsOfElems(v.k, 1) \o <<EndVar>>
      [] v.t = "map"     -> <<BeginVar(v.h, Len(v.k) \div 2)>> \o EventsOfElems(v.k, 2) \o <<EndVar>>
      [] v.t = "tuple"   -> EventsOfAll(v.k)
      [] v.t = "variant" -> <<WriteRaw(serialize_variant_index(v.n))>> \o EventsOfAll(v.k)
      [] v.t = "panic"   -> <<PanicEv>>
      [] v.t = "custom"  -> <<FailEv("Custom")>>
      [] v.t = "skip"    -> <<skip_field>>

(* ----------------------------- BufferSink ----------------------------- *)

Resolved(seqs) == [tag |-> "Resolved", seqs |-> seqs, cursor |-> 0, seq_size |-> 0]
Resolving(cursor, seq_size) ==
    [tag |-> "Resolving", seqs |-> 0, cursor |-> cursor, seq_size |-> seq_size]

BufferSink_with_buffer(buffer) ==
    [buffer |-> buffer, cursor |-> 0,
     current_routine |-> Resolved(0), parent_routines |-> <<>>]

BufferSink_new == BufferSink_with_buffer(<<>>)

BufferSink_clear(bs) == [bs EXCEPT !.buffer = <<>>, !.cursor = 0]

\* A bug: a write never overwrites, it always appends.
BufferSink_send_raw_data_appending(bs, data) ==
    [bs EXCEPT !.buffer = bs.buffer \o data, !.cursor = Len(bs.buffer) + Len(data)]

BufferSink_send_raw_data(bs, data) ==
    LET len == Len(bs.buffer)
        mid == Min(Len(data), len - bs.cursor)
        overriding == SubSeq(data, 1, mid)
        extending == SubSeq(data, mid + 1, Len(data))
        written == SubSeq(bs.buffer, 1, bs.cursor) \o overriding
                   \o SubSeq(bs.buffer, bs.cursor + mid + 1, len)
    IN IF extending = <<>>
       THEN [bs EXCEPT !.buffer = written, !.cursor = bs.cursor + mid]
       ELSE [bs EXCEPT !.buffer = written \o extending,
                       !.cursor = Len(written) + Len(extending)]

\* send_usize on a BufferSink: the 64-bit little-endian length.
BufferSink_send_usize(bs, n) == BufferSink_send_raw_data(bs, LE(Num(n), 8))

\* A bug: every known-length container gets a frame of its own.
push_resolved_always_pushing(bs, len) ==
    [BufferSink_send_usize(bs, len)
        EXCEPT !.parent_routines = Append(bs.parent_routines, bs.current_routine),
               !.current_routine = Resolved(1)]

push_resolved(bs, len) ==
    LET sent == BufferSink_send_usize(bs, len)
        cur == bs.current_routine
    IN IF cur.tag = "Resolved"
       THEN [sent EXCEPT !.current_routine = Resolved(cur.seqs + 1)]
       ELSE [sent EXCEPT !.parent_routines = Append(bs.parent_routines, cur),
                         !.current_routine = Resolved(1)]

push_resolving(bs) ==
    LET cur == bs.current_routine
        parents == IF cur = Resolved(0) THEN bs.parent_routines
                   ELSE Append(bs.parent_routines, cur)
        framed == [bs EXCEPT !.parent_routines = parents,
                             !.current_routine = Resolving(bs.cursor, 0)]
    IN BufferSink_send_usize(framed, 0)

push(bs, known, len) == IF known THEN push_resolved(bs, len) ELSE push_resolving(bs)

\* parent_routines.pop(), or Resolved { seqs: 0 } when there is none.
PopParent(bs) ==
    LET np == Len(bs.parent_routines)
    IN IF np = 0
       THEN [bs EXCEPT !.current_routine = Resolved(0)]
       ELSE [bs EXCEPT !.current_routine = bs.parent_routines[np],
                       !.parent_routines = SubSeq(bs.parent_routines, 1, np - 1)]

\* A bug: the count is written at the cursor, not at the placeholder.
pop_at_cursor(bs) ==
    LET cur == bs.current_routine
    IN IF cur.tag = "Resolved"
       THEN (IF cur.seqs = 1 THEN PopParent(bs)
             ELSE [bs EXCEPT !.current_routine =
                                Resolved(IF cur.seqs = 0 THEN 0 ELSE cur.seqs - 1)])
       ELSE BufferSink_send_usize(PopParent(bs), cur.seq_size)

\* A bug: the back-patch leaves the cursor at the end of the placeholder.
pop_without_restore(bs) ==
    LET cur == bs.current_routine
    IN IF cur.tag = "Resolved"
       THEN (IF cur.seqs = 1 THEN PopParent(bs)
             ELSE [bs EXCEPT !.current_routine =
                                Resolved(IF cur.seqs = 0 THEN 0 ELSE cur.seqs - 1)])
       ELSE BufferSink_send_usize([PopParent(bs) EXCEPT !.cursor = cur.cursor],
                                  cur.seq_size)

pop(bs) ==
    LET cur == bs.current_routine
    IN IF cur.tag = "Resolved"
       THEN (IF cur.seqs = 1 THEN PopParent(bs)
             ELSE [bs EXCEPT !.current_routine =
                                Resolved(IF cur.seqs = 0 THEN 0 ELSE cur.seqs - 1)])
       ELSE LET previous_cursor == bs.cursor
                patched == BufferSink_send_usize(
                               [PopParent(bs) EXCEPT !.cursor = cur.cursor],
                               cur.seq_size)
            IN [patched EXCEPT !.cursor = previous_cursor]

\* A bug: the running element count is never advanced.
inc_size_never(bs) == bs

inc_size(bs) ==
    LET cur == bs.current_routine
    IN IF cur.tag = "Resolving"
       THEN [bs EXCEPT !.current_routine = Resolving(cur.cursor, cur.seq_size + 1)]
       ELSE bs

\* impl SerializationSink for BufferSink: one sink call applied.
BufferSink_apply(bs, ev) ==
    CASE ev.op = "write_raw"   -> BufferSink_send_raw_data(bs, ev.data)
      [] ev.op = "begin_var"   -> push(bs, ev.known, ev.n)
      [] ev.op = "advance_var" -> inc_size(bs)
      [] ev.op = "end_var"     -> pop(bs)
      [] OTHER                 -> bs

RECURSIVE BufferSink_run(_, _)
BufferSink_run(bs, evs) ==
    IF evs = <<>> THEN bs
    ELSE BufferSink_run(BufferSink_apply(bs, Head(evs)), Tail(evs))

\* Config::serialize_into_buffer for a value whose Serialize impl neither
\* panics nor fails: the bytes of the fresh buffer.
serialize_into_buffer(v) == BufferSink_run(BufferSink_with_buffer(<<>>), Events(v)).buffer

(* ---------------------- the Deserializer (decode) --------------------- *)

\* The outcome of decoding one shape from buf at cursor c: st is "ok" (value
\* v, cursor c after it), "eof" (a recv_raw_data of need bytes at cursor c
\* found fewer bytes left), "err" (error e) or "panic".
DOk(v, c) == [st |-> "ok", v |-> v, vs |-> <<>>, c |-> c, need |-> 0, e |-> Ok]
DOkAll(vs, c) == [st |-> "ok", v |-> V("unit", Num(0), <<>>, TRUE), vs |-> vs, c |-> c, need |-> 0, e |-> Ok]
\* A bug: running out of input is reported as a lost connection.
DEof_disconnected(need, c) ==
    [st |-> "eof", v |-> V("unit", Num(0), <<>>, TRUE), vs |-> <<>>, c |-> c, need |-> need,
     e |-> Err("Disconnected")]

DEof(need, c) == [st |-> "eof", v |-> V("unit", Num(0), <<>>, TRUE), vs |-> <<>>, c |-> c, need |-> need,
                  e |-> Err("PrematureEof")]
DErr(e, c) == [st |-> "err", v |-> V("unit", Num(0), <<>>, TRUE), vs |-> <<>>, c |-> c, need |-> 0, e |-> e]
DPanic(c) == [st |-> "panic", v |-> V("unit", Num(0), <<>>, TRUE), vs |-> <<>>, c |-> c, need |-> 0, e |-> Panic]

\* BufferSource::recv_raw_data: the n bytes at the cursor, or PrematureEof.
HasBytes(buf, c, n) == c + n <= Len(buf)
Bytes(buf, c, n) == SubSeq(buf, c + 1, c + n)

\* A bug: a read past the end copies what is left and moves the cursor.
BufferSource_recv_raw_data_partial(buffer, cursor, n) ==
    IF HasBytes(buffer, cursor, n)
    THEN [res |-> Ok, cursor |-> cursor + n, data |-> Bytes(buffer, cursor, n)]
    ELSE [res |-> Err("PrematureEof"), cursor |-> Len(buffer),
          data |-> SubSeq(buffer, cursor + 1, Len(buffer))]

\* BufferSource::recv_raw_data(buf), buf of n bytes: the result, the cursor
\* after the call and the bytes copied into buf.
BufferSource_recv_raw_data(buffer, cursor, n) ==
    IF HasBytes(buffer, cursor, n)
    THEN [res |-> Ok, cursor |-> cursor + n, data |-> Bytes(buffer, cursor, n)]
    ELSE [res |-> Err("PrematureEof"), cursor |-> cursor, data |-> <<>>]

ScalarWidth(tag) ==
    CASE tag \in {"bool", "u8", "i8"} -> 1
      [] tag \in {"u16", "i16"}       -> 2
      [] tag \in {"u32", "i32", "char"} -> 4
      [] tag \in {"u64", "i64"}       -> 8
      [] tag \in {"u128", "i128"}     -> 16

\* A bug: a surrogate is taken for a char.
IsScalarValue_range_only(cp) == ~Less(Num(1114111), cp)

\* char::try_from(u32): a Unicode scalar value.
IsScalarValue(cp) ==
    (Less(cp, Num(55296)) \/ Less(Num(57343), cp)) /\ ~Less(Num(1114111), cp)

\* A bug: only the tag the encoder writes is read as a present value.
option_is_some_strict(tag) == tag = 1

\* deserialize_option: the tag byte of a present value.
option_is_some(tag) == tag # 0

\* deserialize_bool .. deserialize_char on the bytes read.
\* A bug: only the byte the encoder writes for true is read as true.
ScalarOfBytes_true_is_one(tag, bs) ==
    CASE tag = "bool"      -> V("bool", Num(IF bs[1] = 1 THEN 1 ELSE 0), <<>>, TRUE)
      [] tag \in SignedTags -> V(tag, FromLESigned(bs), <<>>, TRUE)
      [] OTHER             -> V(tag, FromLE(bs), <<>>, TRUE)

ScalarOfBytes(tag, bs) ==
    CASE tag = "bool"      -> V("bool", Num(IF bs[1] # 0 THEN 1 ELSE 0), <<>>, TRUE)
      [] tag \in SignedTags -> V(tag, FromLESigned(bs), <<>>, TRUE)
      [] OTHER             -> V(tag, FromLE(bs), <<>>, TRUE)

RECURSIVE Dec(_, _, _)
RECURSIVE DecFields(_, _, _, _)
RECURSIVE DecRep(_, _, _, _, _)
\* ProductAccess over a tuple's or struct's fields: one value per shape.
DecFields(shapes, buf, c, acc) ==
    IF shapes = <<>> THEN DOkAll(acc, c)
    ELSE LET r == Dec(Head(shapes), buf, c)
         IN IF r.st # "ok" THEN r
            ELSE DecFields(Tail(shapes), buf, r.c, Append(acc, r.v))
\* A bug: the length is ignored and elements are read until one fails.
DecRep_greedy(shapes, remaining, buf, c, acc) ==
    LET r == DecFields(shapes, buf, c, <<>>)
    IN IF r.st # "ok" THEN DOkAll(acc, c)
       ELSE DecRep(shapes, remaining, buf, r.c, acc \o r.vs)

\* ProductAccess over the remaining elements of a sequence (shapes is the
\* element shape) or entries of a map (shapes is key and value shape).
DecRep(shapes, remaining, buf, c, acc) ==
    IF remaining = Num(0) THEN DOkAll(acc, c)
    ELSE LET r == DecFields(shapes, buf, c, <<>>)
         IN IF r.st # "ok" THEN r
            ELSE DecRep(shapes, Pred(remaining), buf, r.c, acc \o r.vs)
Dec(s, buf, c) ==
    CASE s.t \in ScalarTags ->
           LET w == ScalarWidth(s.t)
           IN IF ~HasBytes(buf, c, w) THEN DEof(w, c)
              ELSE LET val == ScalarOfBytes(s.t, Bytes(buf, c, w))
                   IN IF s.t = "char" /\ ~IsScalarValue(val.n)
                      THEN DErr(R("InvalidCodePoint", val.n), c + w)
                      ELSE DOk(val, c + w)
      [] s.t = "unit" -> DOk(V("unit", Num(0), <<>>, TRUE), c)
      [] s.t = "opt" ->
           IF ~HasBytes(buf, c, 1) THEN DEof(1, c)
           ELSE IF ~option_is_some(buf[c + 1]) THEN DOk(V("opt", Num(0), <<>>, TRUE), c + 1)
           ELSE LET r == Dec(s.k[1], buf, c + 1)
                IN IF r.st # "ok" THEN r ELSE DOk(V("opt", Num(1), <<r.v>>, TRUE), r.c)
      [] s.t \in {"seq", "map"} ->
           IF ~HasBytes(buf, c, 8) THEN DEof(8, c)
           ELSE LET len == recv_usize(Bytes(buf, c, 8))
                    r == DecRep(s.k, len, buf, c + 8, <<>>)
                IN IF r.st # "ok" THEN r ELSE DOk(V(s.t, Num(0), r.vs, TRUE), r.c)
      [] s.t = "tuple" ->
           LET r == DecFields(s.k, buf, c, <<>>)
           IN IF r.st # "ok" THEN r ELSE DOk(V("tuple", Num(0), r.vs, TRUE), r.c)
      [] s.t = "enum" ->
           IF ~HasBytes(buf, c, 4) THEN DEof(4, c)
           ELSE LET tag == FromLE(Bytes(buf, c, 4))
                IN IF ~Less(tag, Num(Len(s.k))) THEN DErr(Err("Custom"), c + 4)
                   ELSE LET r == Dec(s.k[Small(tag) + 1], buf, c + 4)
                        IN IF r.st # "ok" THEN r
                           ELSE DOk(V("variant", tag, <<r.v>>, TRUE), r.c)
      [] s.t = "panic" -> DPanic(c)
      [] s.t = "custom" -> DErr(Err("Custom"), c)

\* BufferSource::ensure_eof.
ensure_eof(buf, cursor) ==
    IF cursor < Len(buf) THEN R("ExpectedEof", Num(buf[cursor + 1])) ELSE Ok

\* A bug: the end-of-input check is skipped.
deserialize_buffer_unchecked(s, buf, hard_eof) ==
    LET r == Dec(s, buf, 0)
    IN [res |-> IF r.st = "ok" THEN Ok ELSE r.e, v |-> r.v]

\* Config::deserialize_buffer: the result and, when it is Ok, the value.
deserialize_buffer(s, buf, hard_eof) ==
    LET r == Dec(s, buf, 0)
    IN IF r.st # "ok" THEN [res |-> r.e, v |-> r.v]
       ELSE IF hard_eof /\ ensure_eof(buf, r.c) # Ok
            THEN [res |-> ensure_eof(buf, r.c), v |-> V("unit", Num(0), <<>>, TRUE)]
            ELSE [res |-> Ok, v |-> r.v]

(* ----------------------------- ChannelSink ---------------------------- *)

Channel == [mode |-> "Channel", outer_seq_size |-> 0, inner_seqs |-> 0]
Buffer(outer_seq_size, inner_seqs) ==
    [mode |-> "Buffer", outer_seq_size |-> outer_seq_size, inner_seqs |-> inner_seqs]

\* The effect of one ChannelSink call: the multiplexing state and the
\* fallback buffer after it, the bytes it hands to blocking_send (in order),
\* and whether fallback_buffer.clear() follows the last of those sends.
Effect(mux, fb, out, clear) == [mux |-> mux, fb |-> fb, out |-> out, clear |-> clear]

\* A bug: bytes go to the queue in Buffer mode too.
ChannelSink_send_raw_data_direct(mux, fb, data) == Effect(mux, fb, data, FALSE)

ChannelSink_send_raw_data(mux, fb, data) ==
    IF mux.mode = "Channel"
    THEN Effect(mux, fb, data, FALSE)
    ELSE Effect(mux, BufferSink_send_raw_data(fb, data), <<>>, FALSE)

\* send_usize on a ChannelSink: send_u64, that is send_raw_data.
ChannelSink_send_usize(mux, fb, n) == ChannelSink_send_raw_data(mux, fb, LE(Num(n), 8))

\* A bug: a known length is not written in Channel mode.
ChannelSink_start_var_sized_silent(mux, fb, known, len) ==
    IF mux.mode = "Channel"
    THEN Effect(IF known THEN mux ELSE Buffer(0, 0), fb, <<>>, FALSE)
    ELSE Effect(Buffer(mux.outer_seq_size, mux.inner_seqs + 1),
                push(fb, known, len), <<>>, FALSE)

ChannelSink_start_var_sized(mux, fb, known, len) ==
    IF mux.mode = "Channel"
    THEN (IF known THEN ChannelSink_send_usize(mux, fb, len)
          ELSE Effect(Buffer(0, 0), fb, <<>>, FALSE))
    ELSE Effect(Buffer(mux.outer_seq_size, mux.inner_seqs + 1),
                push(fb, known, len), <<>>, FALSE)

ChannelSink_end_var_sized(mux, fb) ==
    IF mux.mode = "Channel" THEN Effect(mux, fb, <<>>, FALSE)
    ELSE IF mux.inner_seqs = 0
    THEN LET sized == ChannelSink_send_usize(mux, fb, mux.outer_seq_size)
         IN Effect(sized.mux, sized.fb, sized.out \o sized.fb.buffer, TRUE)
    ELSE Effect(Buffer(mux.outer_seq_size, mux.inner_seqs - 1), pop(fb), <<>>, FALSE)

ChannelSink_advance_var_sized(mux, fb) ==
    IF mux.mode = "Buffer" /\ mux.inner_seqs = 0
    THEN Effect(Buffer(mux.outer_seq_size + 1, 0), fb, <<>>, FALSE)
    ELSE Effect(mux, fb, <<>>, FALSE)

\* impl SerializationSink for ChannelSink: one sink call applied.
ChannelSink_apply(mux, fb, ev) ==
    CASE ev.op = "write_raw"   -> ChannelSink_send_raw_data(mux, fb, ev.data)
      [] ev.op = "begin_var"   -> ChannelSink_start_var_sized(mux, fb, ev.known, ev.n)
      [] ev.op = "advance_var" -> ChannelSink_advance_var_sized(mux, fb)
      [] ev.op = "end_var"     -> ChannelSink_end_var_sized(mux, fb)
      [] OTHER                 -> Effect(mux, fb, <<>>, FALSE)

\* The bytes a ChannelSink puts on the queue for a list of sink calls none
\* of whose sends fails.
RECURSIVE ChannelSink_run(_, _, _)
ChannelSink_run(mux, fb, evs) ==
    IF evs = <<>> \/ Head(evs).op \in {"panic", "fail"} THEN <<>>
    ELSE LET eff == ChannelSink_apply(mux, fb, Head(evs))
         IN eff.out \o ChannelSink_run(eff.mux,
                                       IF eff.clear THEN BufferSink_clear(eff.fb) ELSE eff.fb,
                                       Tail(evs))

\* What Config::serialize writes for value v when no write fails.
StreamBytes(v) == ChannelSink_run(Channel, BufferSink_new, Events(v))

(* ------------------------- the inputs drawn --------------------------- *)

U8 == Sh("u8", <<>>)
Bool == Sh("bool", <<>>)
I16 == Sh("i16", <<>>)
U32 == Sh("u32", <<>>)
U64 == Sh("u64", <<>>)
Char == Sh("char", <<>>)
Unit == Sh("unit", <<>>)
Opt(s) == Sh("opt", <<s>>)
SeqOf(s) == Sh("seq", <<s>>)
MapOf(ks, vs) == Sh("map", <<ks, vs>>)
Tuple(ss) == Sh("tuple", ss)
Enum(ss) == Sh("enum", ss)
IntType(tag) == Sh(tag, <<>>)
PanicType == Sh("panic", <<>>)
CustomType == Sh("custom", <<>>)
SkipType == Sh("skip", <<>>)

\* The scalar payloads drawn: a few per type at the top, fewer inside
\* containers (depth counts the enclosing sequences and maps).
Sample(tag, depth) ==
    CASE tag = "bool" -> {Num(0), Num(1)}
      [] tag = "u8"   -> IF depth = 0 THEN {Num(0), Num(7), Num(255)}
                         ELSE IF depth = 1 THEN {Num(7), Num(255)} ELSE {Num(7)}
      [] tag = "i16"  -> IF depth = 0 THEN {Num(-32768), Num(-3), Num(0), Num(2555)}
                         ELSE {Num(-3)}
      [] tag = "u32"  -> IF depth = 0
                         THEN {Num(0), Num(66051), [neg |-> FALSE, mag |-> <<65535, 65535>>]}
                         ELSE {Num(66051)}
      [] tag = "u64"  -> IF depth = 0
                         THEN {Num(0), Num(16909060),
                               [neg |-> FALSE, mag |-> <<65535, 65535, 65535, 65535>>]}
                         ELSE {Num(16909060)}
      [] tag = "char" -> IF depth = 0 THEN {Num(97), Num(231), Num(128512)} ELSE {Num(231)}
      [] tag = "i8"   -> {Num(-128), Num(-3), Num(127)}
      [] tag = "u16"  -> {Num(0), Num(59506), Num(65535)}
      [] tag = "i32"  -> {[neg |-> TRUE, mag |-> <<0, 32768>>], Num(-3), Num(66051),
                          Num(2147483647)}
      [] tag = "i64"  -> {[neg |-> TRUE, mag |-> <<0, 0, 0, 32768>>],
                          [neg |-> TRUE, mag |-> <<0, 0, 256>>], Num(-3), Num(16909060),
                          [neg |-> FALSE, mag |-> <<65535, 65535, 65535, 32767>>]}
      [] tag = "u128" -> {Num(0), Num(16909060),
                          [neg |-> FALSE, mag |-> <<0, 0, 0, 0, 1>>],
                          [neg |-> FALSE, mag |-> [i \in 1..8 |-> 65535]]}
      [] tag = "i128" -> {[neg |-> TRUE, mag |-> <<0, 0, 0, 0, 0, 0, 0, 32768>>],
                          Num(-3), Num(5),
                          [neg |-> FALSE, mag |-> <<1, 2, 3, 4, 5, 6, 7, 8>>]}

\* Sequences of entries with strictly increasing keys: a map's iteration.
Increasing(es) == \A i \in 1..(Len(es) - 1) : Less(es[i][1].n, es[i + 1][1].n)

RECURSIVE Flatten(_)
Flatten(es) == IF es = <<>> THEN <<>> ELSE Head(es) \o Flatten(Tail(es))

\* The values of a shape, each sequence or map with its length reported
\* (h) or not.
RECURSIVE ValuesOf(_, _)
RECURSIVE TuplesOf(_, _)
TuplesOf(ss, depth) ==
    IF ss = <<>> THEN {<<>>}
    ELSE {<<x>> \o rest : x \in ValuesOf(Head(ss), depth), rest \in TuplesOf(Tail(ss), depth)}
ValuesOf(s, depth) ==
    CASE s.t \in ScalarTags -> {V(s.t, n, <<>>, TRUE) : n \in Sample(s.t, depth)}
      [] s.t = "unit"  -> {V("unit", Num(0), <<>>, TRUE)}
      [] s.t = "opt"   -> {V("opt", Num(0), <<>>, TRUE)}
                          \cup {V("opt", Num(1), <<x>>, TRUE) : x \in ValuesOf(s.k[1], depth)}
      [] s.t = "seq"   -> {V("seq", Num(0), es, h) :
                             es \in SeqsUpTo(ValuesOf(s.k[1], depth + 1), MaxLen),
                             h \in BOOLEAN}
      [] s.t = "map"   -> {V("map", Num(0), Flatten(es), h) :
                             es \in {e \in SeqsUpTo(TuplesOf(s.k, depth + 1), MaxLen) :
                                       Increasing(e)},
                             h \in BOOLEAN}
      [] s.t = "tuple" -> {V("tuple", Num(0), fs, TRUE) : fs \in TuplesOf(s.k, depth)}
      [] s.t = "enum"  -> UNION {{V("variant", Num(i - 1), <<x>>, TRUE) :
                                    x \in ValuesOf(s.k[i], depth)} : i \in 1..Len(s.k)}
      [] s.t = "panic"  -> {V("panic", Num(0), <<>>, TRUE)}
      [] s.t = "custom" -> {V("custom", Num(0), <<>>, TRUE)}
      [] s.t = "skip"   -> {V("skip", Num(0), <<>>, TRUE)}

Case(s, v) == [shape |-> s, val |-> v]
CasesOf(shapes) == UNION {{Case(s, v) : v \in ValuesOf(s, 0)} : s \in shapes}

\* The shapes of the in-memory path.
BufShapes ==
    {U8, Bool, I16, U32, U64, Char, Unit, Opt(I16), Opt(SeqOf(U8)),
     IntType("i8"), IntType("u16"), IntType("i32"), IntType("i64"), IntType("u128"), IntType("i128"),
     SeqOf(U8), SeqOf(SeqOf(U8)), SeqOf(Opt(Bool)), MapOf(U8, Bool), MapOf(U8, SeqOf(U8)),
     Tuple(<<SeqOf(U8), U8>>), Tuple(<<U8, I16, Bool>>),
     Enum(<<Tuple(<<SeqOf(U8), U32>>), Tuple(<<U8, I16, Bool>>), Unit>>),
     Tuple(<<U8, PanicType>>), Tuple(<<U8, CustomType>>),
     Tuple(<<I16, SkipType, U8>>), Enum(<<Unit, Tuple(<<U8, SkipType>>)>>)}

BufCases == CasesOf(BufShapes)

(* ------------------------------ the state ----------------------------- *)

VARIABLES
    kind,         \* "buf", "onbuf", "decbuf": in-memory calls; "config",
                  \* "deconfig": the ser and the de Config builder; "source":
                  \* reads of a BufferSource; "enc", "dec", "roundtrip": streaming
    shape,        \* the target shape of the decode
    val,          \* the value encoded
    cfg,          \* the Config: batch_limit, channel_limit, request_channel_limit,
                  \* response_channel_limit, hard_eof
    todo,         \* the sink calls the encode traversal has still to make
    pend,         \* ChannelSink: the bytes of the current call still to blocking_send
    flushing,     \* ChannelSink: fallback_buffer.clear() follows the last pending send
    multiplexing, \* ChannelSink.multiplexing
    buffer_sink,  \* the BufferSink: the serializer's sink ("buf"), or
                  \* ChannelSink.fallback_buffer ("enc")
    tpc,          \* the traversal: "unspawned", or the ChannelSource's "demand"
                  \* (about to ask) or "await" (asked)
    got,          \* the bytes the decode traversal has read so far
    tres,         \* the traversal's result: Running, Ok, an error, Panic
    tval,         \* the value the decode traversal returned
    queue,        \* the byte queue of a streaming encode (mpsc::channel<u8>)
    sent,         \* history: every byte the ChannelSink put on the queue, in order
    requests,     \* the request queue of a streaming decode (sizes)
    responses,    \* the response queue of a streaming decode (byte vectors)
    bpc,          \* the backend's position ("unspawned" before it exists)
    buf,          \* the backend's buffer: the write batch, or the response being filled
    need,         \* read backend: the size of the request being answered
    wrote,        \* write backend: how many bytes of the batch write_all has
                  \* handed to the device
    bres,         \* the backend's result: Running, Ok, an error
    eof_seen,     \* read backend: a read returned 0 and the loop went on
    written,      \* the bytes the async writer has received
    input,        \* the bytes the async reader (or the decoded buffer) holds
    rpos,         \* how many bytes of input the async reader has handed out
    opc,          \* the orchestrator: "channel" (about to create a channel of
                  \* limit 0), "backend", "handle", "returned"
    outcome       \* what the entry point returned (or Panic when it re-raised)

vars == <<kind, shape, val, cfg, todo, pend, flushing, multiplexing, buffer_sink,
          tpc, got, tres, tval, queue, sent, requests, responses, bpc, buf, need,
          wrote, bres, eof_seen, written, input, rpos, opc, outcome>>

\* What a traversal ends with when its value's own impl ends it.
travVars == <<todo, pend, flushing, multiplexing, buffer_sink, tpc, got, tres, tval>>
chanVars == <<queue, sent, requests, responses>>
backVars == <<bpc, buf, need, wrote, bres, eof_seen>>
devVars == <<written, input, rpos>>
caseVars == <<kind, shape, val, cfg>>
orchVars == <<opc, outcome>>

Config(batch_limit, channel_limit, request_channel_limit, response_channel_limit, hard_eof) ==
    [batch_limit |-> batch_limit, channel_limit |-> channel_limit,
     request_channel_limit |-> request_channel_limit,
     response_channel_limit |-> response_channel_limit, hard_eof |-> hard_eof]

NoValue == V("unit", Num(0), <<>>, TRUE)

\* The state every session starts from, but for the inputs drawn (kind,
\* shape, val, cfg, todo, input): ChannelSink::new, ChannelBackend::new, empty
\* queues, an untouched device.
Fresh ==
    /\ pend = <<>> /\ flushing = FALSE
    /\ multiplexing = Channel /\ buffer_sink = BufferSink_new
    /\ tpc = "demand" /\ got = <<>> /\ tres = Running /\ tval = NoValue
    /\ queue = <<>> /\ sent = <<>> /\ requests = <<>> /\ responses = <<>>
    /\ bpc = "recv" /\ buf = <<>> /\ need = 0 /\ wrote = 0 /\ bres = Running /\ eof_seen = FALSE
    /\ written = <<>> /\ rpos = 0
    /\ opc = "backend" /\ outcome = Running

\* The state a streaming call starts from when a limit of its configuration
\* is 0: it is about to create its channels, nothing is spawned.
Unspawned ==
    /\ pend = <<>> /\ flushing = FALSE
    /\ multiplexing = Channel /\ buffer_sink = BufferSink_new
    /\ tpc = "unspawned" /\ got = <<>> /\ tres = Running /\ tval = NoValue
    /\ queue = <<>> /\ sent = <<>> /\ requests = <<>> /\ responses = <<>>
    /\ bpc = "unspawned" /\ buf = <<>> /\ need = 0 /\ wrote = 0 /\ bres = Running
    /\ eof_seen = FALSE
    /\ written = <<>> /\ rpos = 0
    /\ opc = "channel" /\ outcome = Running

(* ---------------- the in-memory path (specification SpecBuf) ---------- *)

\* Config::serialize_into_buffer: a fresh buffer, a BufferSink over it, and
\* the traversal about to start.
InitBuf ==
    /\ kind = "buf"
    /\ \E c \in BufCases : shape = c.shape /\ val = c.val
    /\ \E h \in BOOLEAN : cfg = Config(1, 1, 1, 1, h)
    /\ todo = Events(val)
    /\ input = <<>>
    /\ Fresh

\* What a caller's buffer holds when it is handed to serialize_on_buffer.
PriorBuffers == {<<>>, <<1>>, <<1, 2, 3>>}

OnBufShapes == {U8, SeqOf(U8), Tuple(<<SeqOf(U8), U8>>), Tuple(<<U8, CustomType>>)}

\* Config::serialize_on_buffer(buffer, value): a BufferSink over the caller's
\* buffer, and the traversal about to start (got keeps what the buffer held
\* when it was handed over).
InitOnBuf ==
    /\ kind = "onbuf"
    /\ \E c \in CasesOf(OnBufShapes) : shape = c.shape /\ val = c.val
    /\ cfg = Config(1, 1, 1, 1, FALSE)
    /\ todo = Events(val)
    /\ input = <<>>
    /\ \E b \in PriorBuffers : buffer_sink = BufferSink_with_buffer(b) /\ got = b
    /\ pend = <<>> /\ flushing = FALSE /\ multiplexing = Channel
    /\ tpc = "demand" /\ tres = Running /\ tval = NoValue
    /\ queue = <<>> /\ sent = <<>> /\ requests = <<>> /\ responses = <<>>
    /\ bpc = "recv" /\ buf = <<>> /\ need = 0 /\ wrote = 0 /\ bres = Running /\ eof_seen = FALSE
    /\ written = <<>> /\ rpos = 0
    /\ opc = "backend" /\ outcome = Running

IsBuf == kind \in {"buf", "onbuf"}

\* value.serialize(&mut serializer): the next sink call on the BufferSink,
\* or the panic or error of the value's own impl.
BufCall ==
    /\ IsBuf /\ tres = Running /\ todo # <<>>
    /\ LET ev == Head(todo)
       IN /\ todo' = Tail(todo)
          /\ buffer_sink' = BufferSink_apply(buffer_sink, ev)
          /\ tres' = CASE ev.op = "panic" -> Panic
                       [] ev.op = "fail"  -> Err(ev.e)
                       [] OTHER           -> tres
    /\ UNCHANGED <<pend, flushing, multiplexing, tpc, got, tval>>
    /\ UNCHANGED <<chanVars, backVars, devVars, caseVars, orchVars>>

\* serialize_into_buffer returns Ok(buffer) (serialize_on_buffer Ok(()), the
\* bytes in the caller's buffer): the bytes are the decoder's input.
BufReturn ==
    /\ IsBuf /\ tres = Running /\ todo = <<>>
    /\ tres' = Ok
    /\ input' = buffer_sink.buffer
    /\ UNCHANGED <<todo, pend, flushing, multiplexing, buffer_sink, tpc, got, tval>>
    /\ UNCHANGED <<chanVars, backVars, written, rpos, caseVars, orchVars>>

\* Config::deserialize_buffer on the bytes just encoded, by the same shape.
BufDecode ==
    /\ kind = "buf" /\ tres = Ok /\ opc = "backend"
    /\ LET r == deserialize_buffer(shape, input, cfg.hard_eof)
       IN outcome' = r.res /\ tval' = r.v
    /\ opc' = "returned"
    /\ UNCHANGED <<todo, pend, flushing, multiplexing, buffer_sink, tpc, got, tres>>
    /\ UNCHANGED <<chanVars, backVars, devVars, caseVars>>

\* ser Config::default.
DefaultBatchLimit == 64
DefaultChannelLimit == 64

\* A bug: the size is stored before it is checked.
with_batch_limit_storing(c, byte_count) ==
    [cfg |-> [c EXCEPT !.batch_limit = byte_count],
     res |-> IF byte_count = 0 THEN R("BufLimitTooLow", Num(byte_count)) ELSE Ok]

\* ser Config::with_batch_limit: the configuration after the call and what
\* the call returns (Ok(self), or ConfigError::BufLimitTooLow).
with_batch_limit(c, byte_count) ==
    IF byte_count = 0
    THEN [cfg |-> c, res |-> R("BufLimitTooLow", Num(byte_count))]
    ELSE [cfg |-> [c EXCEPT !.batch_limit = byte_count], res |-> Ok]

\* ser Config::with_channel_limit: the size is stored as it is, 0 too.
with_channel_limit(c, byte_count) == [c EXCEPT !.channel_limit = byte_count]

\* de Config::with_hard_eof (it takes no argument and only ever sets).
with_hard_eof(c) == [c EXCEPT !.hard_eof = TRUE]

\* de Config::with_request_channel_limit, with_response_channel_limit: the
\* limit is stored as it is, 0 too.
with_request_channel_limit(c, limit) == [c EXCEPT !.request_channel_limit = limit]
with_response_channel_limit(c, limit) == [c EXCEPT !.response_channel_limit = limit]

\* ser Config::new(), and the builder calls its owner goes on to make (todo:
\* of each call the method f and the argument n).  (The fields of the de
\* Config stay at their defaults.)
InitConfig ==
    /\ kind = "config"
    /\ shape = Unit /\ val = NoValue
    /\ cfg = Config(DefaultBatchLimit, DefaultChannelLimit, 1, 1, FALSE)
    /\ todo \in SeqsUpTo({[f |-> "with_batch_limit", n |-> n] : n \in 0..MaxBatch}
                         \cup {[f |-> "with_channel_limit", n |-> n] : n \in 0..MaxQueue},
                         3)
    /\ input = <<>>
    /\ Fresh

\* de Config::new(): hard_eof false, both limits 1, and the builder calls
\* its owner goes on to make (todo; with_hard_eof has no argument).  (The fields of the ser Config stay at
\* their defaults.)
InitDeConfig ==
    /\ kind = "deconfig"
    /\ shape = Unit /\ val = NoValue
    /\ cfg = Config(DefaultBatchLimit, DefaultChannelLimit, 1, 1, FALSE)
    /\ todo \in SeqsUpTo({[f |-> "with_hard_eof", n |-> 0]}
                         \cup {[f |-> g, n |-> n] :
                                 g \in {"with_request_channel_limit",
                                        "with_response_channel_limit"},
                                 n \in 0..MaxQueue},
                         3)
    /\ input = <<>>
    /\ Fresh

\* config.with_batch_limit(byte_count).
WithBatchLimit ==
    /\ kind = "config" /\ todo # <<>> /\ Head(todo).f = "with_batch_limit"
    /\ LET r == with_batch_limit(cfg, Head(todo).n)
       IN cfg' = r.cfg /\ outcome' = r.res
    /\ todo' = Tail(todo)
    /\ UNCHANGED <<kind, shape, val, opc>>
    /\ UNCHANGED <<pend, flushing, multiplexing, buffer_sink, tpc, got, tres, tval>>
    /\ UNCHANGED <<chanVars, backVars, devVars>>

\* config.with_channel_limit(byte_count): it returns the configuration.
WithChannelLimit ==
    /\ kind = "config" /\ todo # <<>> /\ Head(todo).f = "with_channel_limit"
    /\ cfg' = with_channel_limit(cfg, Head(todo).n)
    /\ outcome' = Ok
    /\ todo' = Tail(todo)
    /\ UNCHANGED <<kind, shape, val, opc>>
    /\ UNCHANGED <<pend, flushing, multiplexing, buffer_sink, tpc, got, tres, tval>>
    /\ UNCHANGED <<chanVars, backVars, devVars>>

\* config.with_hard_eof().
WithHardEof ==
    /\ kind = "deconfig" /\ todo # <<>> /\ Head(todo).f = "with_hard_eof"
    /\ cfg' = with_hard_eof(cfg)
    /\ outcome' = Ok
    /\ todo' = Tail(todo)
    /\ UNCHANGED <<kind, shape, val, opc>>
    /\ UNCHANGED <<pend, flushing, multiplexing, buffer_sink, tpc, got, tres, tval>>
    /\ UNCHANGED <<chanVars, backVars, devVars>>

\* config.with_request_channel_limit(limit).
WithRequestChannelLimit ==
    /\ kind = "deconfig" /\ todo # <<>> /\ Head(todo).f = "with_request_channel_limit"
    /\ cfg' = with_request_channel_limit(cfg, Head(todo).n)
    /\ outcome' = Ok
    /\ todo' = Tail(todo)
    /\ UNCHANGED <<kind, shape, val, opc>>
    /\ UNCHANGED <<pend, flushing, multiplexing, buffer_sink, tpc, got, tres, tval>>
    /\ UNCHANGED <<chanVars, backVars, devVars>>

\* config.with_response_channel_limit(limit).
WithResponseChannelLimit ==
    /\ kind = "deconfig" /\ todo # <<>> /\ Head(todo).f = "with_response_channel_limit"
    /\ cfg' = with_response_channel_limit(cfg, Head(todo).n)
    /\ outcome' = Ok
    /\ todo' = Tail(todo)
    /\ UNCHANGED <<kind, shape, val, opc>>
    /\ UNCHANGED <<pend, flushing, multiplexing, buffer_sink, tpc, got, tres, tval>>
    /\ UNCHANGED <<chanVars, backVars, devVars>>

(* ------------- streaming sessions (specification Spec) ---------------- *)

\* The values a streaming encode is drawn with: flat sequences, a sequence
\* followed by a field, n sequences of m elements each under every pair of
\* hints, and values whose own impl panics or fails after a field.
StreamShapes ==
    {SeqOf(U8), Tuple(<<SeqOf(U8), U8>>), Tuple(<<U8, PanicType>>),
     Tuple(<<U8, CustomType>>), Tuple(<<SeqOf(PanicType)>>)}

Grid(n, m, outer_known, inner_known) ==
    V("seq", Num(0),
      [i \in 1..n |-> V("seq", Num(0), [j \in 1..m |-> V("u8", Num(16 * i + j), <<>>, TRUE)],
                        inner_known)],
      outer_known)

StreamCases ==
    UNION {{Case(s, v) : v \in ValuesOf(s, 2)} : s \in StreamShapes}
    \cup {Case(SeqOf(SeqOf(U8)), Grid(n, m, ho, hi)) :
            n \in 0..MaxLen, m \in 0..MaxLen, ho \in BOOLEAN, hi \in BOOLEAN}

IsDec == kind \in {"dec", "roundtrip"}
IsStream == kind \in {"enc", "dec", "roundtrip"}

\* Whether the peer's end of a queue is gone: the traversal's closure has
\* returned or unwound (its sink or source dropped), the backend's run has
\* returned (self dropped).
TraversalGone == tres # Running
BackendGone == bres # Running

(* ---- streaming encode: the blocking traversal over a ChannelSink ---- *)

\* value.serialize(&mut serializer): the next sink call, up to its first
\* blocking_send, or the panic or error of the value's own impl.
SinkCall ==
    /\ kind = "enc" /\ tpc # "unspawned" /\ tres = Running /\ pend = <<>> /\ todo # <<>>
    /\ LET ev == Head(todo)
           eff == ChannelSink_apply(multiplexing, buffer_sink, ev)
       IN /\ todo' = Tail(todo)
          /\ multiplexing' = eff.mux
          /\ pend' = eff.out
          /\ flushing' = (eff.clear /\ eff.out # <<>>)
          /\ buffer_sink' = IF eff.clear /\ eff.out = <<>>
                            THEN BufferSink_clear(eff.fb) ELSE eff.fb
          /\ tres' = CASE ev.op = "panic" -> Panic
                       [] ev.op = "fail"  -> Err(ev.e)
                       [] OTHER           -> tres
    /\ UNCHANGED <<tpc, got, tval>>
    /\ UNCHANGED <<chanVars, backVars, devVars, caseVars, orchVars>>

\* sender.blocking_send(byte) with room in the queue and the receiver alive;
\* after the last byte of a flush, fallback_buffer.clear().
SinkSend ==
    /\ kind = "enc" /\ tpc # "unspawned" /\ tres = Running /\ pend # <<>>
    /\ ~BackendGone
    /\ Len(queue) < cfg.channel_limit
    /\ queue' = Append(queue, Head(pend))
    /\ sent' = Append(sent, Head(pend))
    /\ pend' = Tail(pend)
    /\ IF flushing /\ Tail(pend) = <<>>
       THEN buffer_sink' = BufferSink_clear(buffer_sink) /\ flushing' = FALSE
       ELSE UNCHANGED <<buffer_sink, flushing>>
    /\ UNCHANGED <<todo, multiplexing, tpc, got, tres, tval>>
    /\ UNCHANGED <<requests, responses, backVars, devVars, caseVars, orchVars>>

\* A bug: a send on a queue whose receiver is gone waits for ever.
SinkDisconnected_never == FALSE /\ UNCHANGED vars

\* sender.blocking_send(byte) with the receiver gone: Error::Disconnected.
SinkDisconnected ==
    /\ kind = "enc" /\ tpc # "unspawned" /\ tres = Running /\ pend # <<>>
    /\ BackendGone
    /\ tres' = Err("Disconnected")
    /\ UNCHANGED <<todo, pend, flushing, multiplexing, buffer_sink, tpc, got, tval>>
    /\ UNCHANGED <<chanVars, backVars, devVars, caseVars, orchVars>>

\* The traversal returns Ok(()): the closure ends and drops the sink.
SinkReturn ==
    /\ kind = "enc" /\ tpc # "unspawned" /\ tres = Running /\ pend = <<>> /\ todo = <<>>
    /\ tres' = Ok
    /\ UNCHANGED <<todo, pend, flushing, multiplexing, buffer_sink, tpc, got, tval>>
    /\ UNCHANGED <<chanVars, backVars, devVars, caseVars, orchVars>>

(* ---- streaming encode: the write backend (ser ChannelBackend::run) ---- *)

\* A bug: the batch limit is ignored.
recv_many_unlimited(q, limit) == [batch |-> q, rest |-> <<>>]

\* A bug: the batch is taken from the back of the queue.
recv_many_from_back(q, limit) ==
    LET n == Min(Len(q), limit)
    IN [batch |-> SubSeq(q, Len(q) - n + 1, Len(q)), rest |-> SubSeq(q, 1, Len(q) - n)]

\* receiver.recv_many(&mut buf, limit) on a queue that holds messages: the
\* first min(len, limit) of them.
recv_many(q, limit) ==
    LET n == Min(Len(q), limit)
    IN [batch |-> SubSeq(q, 1, n), rest |-> SubSeq(q, n + 1, Len(q))]

\* recv_many returns a positive count.
WriteRecv ==
    /\ kind = "enc" /\ ~BackendGone /\ bpc = "recv"
    /\ queue # <<>>
    /\ LET r == recv_many(queue, cfg.batch_limit)
       IN buf' = buf \o r.batch /\ queue' = r.rest
    /\ bpc' = "write"
    /\ UNCHANGED <<need, wrote, bres, eof_seen, sent, requests, responses>>
    /\ UNCHANGED <<travVars, devVars, caseVars, orchVars>>

\* A bug: the backend returns as soon as the sender is dropped, whatever
\* the queue still holds.
WriteClosed_eager ==
    /\ kind = "enc" /\ ~BackendGone /\ bpc = "recv"
    /\ TraversalGone
    /\ bres' = Ok
    /\ bpc' = "done"
    /\ UNCHANGED <<buf, need, wrote, eof_seen>>
    /\ UNCHANGED <<travVars, chanVars, devVars, caseVars, orchVars>>

\* recv_many returns 0 (the queue is empty and its sender dropped): Ok(()).
WriteClosed ==
    /\ kind = "enc" /\ ~BackendGone /\ bpc = "recv"
    /\ queue = <<>> /\ TraversalGone
    /\ bres' = Ok
    /\ bpc' = "done"
    /\ UNCHANGED <<buf, need, wrote, eof_seen>>
    /\ UNCHANGED <<travVars, chanVars, devVars, caseVars, orchVars>>

\* device.write_all(&buf) goes on: one poll_write takes count bytes of what
\* is left of the batch (the task yields between two of them); after the
\* last byte write_all returns Ok and buf.clear() follows.
WriteAll ==
    /\ kind = "enc" /\ ~BackendGone /\ bpc = "write"
    /\ \E count \in 1..(Len(buf) - wrote) :
          /\ written' = written \o SubSeq(buf, wrote + 1, wrote + count)
          /\ IF wrote + count = Len(buf)
             THEN buf' = <<>> /\ wrote' = 0 /\ bpc' = "recv"
             ELSE buf' = buf /\ wrote' = wrote + count /\ bpc' = "write"
    /\ UNCHANGED <<need, bres, eof_seen, input, rpos>>
    /\ UNCHANGED <<travVars, chanVars, caseVars, orchVars>>

\* device.write_all(&buf) fails (a poll_write returns an error, or takes no
\* byte: WriteZero), whatever the device took of the batch before: run
\* returns the io::Error and drops the receiver with what the queue still
\* holds.
WriteFail ==
    /\ kind = "enc" /\ ~BackendGone /\ bpc = "write"
    /\ bres' = Err("IO")
    /\ bpc' = "done"
    /\ queue' = <<>>
    /\ UNCHANGED <<buf, need, wrote, eof_seen, sent, requests, responses>>
    /\ UNCHANGED <<travVars, devVars, caseVars, orchVars>>

(* ---- the orchestrator (Config::serialize, Config::deserialize) ---- *)

\* A bug: the handle is awaited whatever the backend returned.
backend_run_await_lenient(b) == [opc |-> "handle", outcome |-> Running]

\* backend.run().await?: an error returns at once, Ok goes on to the handle.
backend_run_await(b) ==
    IF b = Ok THEN [opc |-> "handle", outcome |-> Running]
    ELSE [opc |-> "returned", outcome |-> b]

\* match block_handle.await: the traversal's own result, or its panic
\* resumed (panic::resume_unwind).
block_handle_await(t) == t

OrchBackend ==
    /\ kind # "buf" /\ opc = "backend" /\ BackendGone
    /\ LET r == backend_run_await(bres)
       IN opc' = r.opc /\ outcome' = r.outcome
    /\ UNCHANGED <<travVars, chanVars, backVars, devVars, caseVars>>

OrchHandle ==
    /\ kind # "buf" /\ opc = "handle" /\ TraversalGone
    /\ outcome' = block_handle_await(tres)
    /\ opc' = "returned"
    /\ UNCHANGED <<travVars, chanVars, backVars, devVars, caseVars>>

\* mpsc::channel(0), the first statement of Config::serialize (channel_limit)
\* and of Config::deserialize (request_channel_limit, then
\* response_channel_limit): the call panics, nothing is spawned.
ChannelPanic ==
    /\ IsStream /\ opc = "channel"
    /\ outcome' = Panic
    /\ opc' = "returned"
    /\ UNCHANGED <<travVars, chanVars, backVars, devVars, caseVars>>

(* ---- streaming decode: the blocking traversal over a ChannelSource ---- *)

\* Where T::deserialize(&mut deserializer) stands after the reads answered so
\* far: every recv_raw_data before was filled exactly from got, so the
\* decoder run over got ends where the traversal stands: returned ("ok"),
\* failed ("err"), panicked, or about to read need more bytes ("eof").
Demand == Dec(shape, got, 0)

\* The traversal returns: a value, an error of its own, or a panic.  The
\* closure ends and drops the source.
SourceReturn ==
    /\ IsDec /\ tres = Running /\ tpc = "demand"
    /\ Demand.st # "eof"
    /\ tres' = CASE Demand.st = "ok"    -> Ok
                 [] Demand.st = "panic" -> Panic
                 [] OTHER               -> Demand.e
    /\ tval' = Demand.v
    /\ UNCHANGED <<todo, pend, flushing, multiplexing, buffer_sink, tpc, got>>
    /\ UNCHANGED <<chanVars, backVars, devVars, caseVars, orchVars>>

\* A bug: the source sends its request and does not wait for the response.
SourceRequest_pipelined ==
    /\ IsDec /\ tres = Running /\ tpc = "demand"
    /\ Demand.st = "eof"
    /\ ~BackendGone
    /\ Len(requests) < cfg.request_channel_limit
    /\ requests' = Append(requests, Demand.need)
    /\ UNCHANGED <<todo, pend, flushing, multiplexing, buffer_sink, tpc, got, tres, tval>>
    /\ UNCHANGED <<queue, sent, responses, backVars, devVars, caseVars, orchVars>>

\* recv_raw_data: request_sender.blocking_send(buf.len()), or PrematureEof
\* when the request receiver is gone.
SourceRequest ==
    /\ IsDec /\ tres = Running /\ tpc = "demand"
    /\ Demand.st = "eof"
    /\ IF BackendGone
       THEN tres' = Err("PrematureEof") /\ UNCHANGED <<requests, tpc>>
       ELSE /\ Len(requests) < cfg.request_channel_limit
            /\ requests' = Append(requests, Demand.need)
            /\ tpc' = "await"
            /\ tres' = tres
    /\ UNCHANGED <<todo, pend, flushing, multiplexing, buffer_sink, got, tval>>
    /\ UNCHANGED <<queue, sent, responses, backVars, devVars, caseVars, orchVars>>

\* recv_raw_data: response_receiver.blocking_recv() yields a vector, and
\* buf.copy_from_slice(&vector) copies it (a panic when the lengths differ).
SourceReceive ==
    /\ IsDec /\ tres = Running /\ tpc = "await"
    /\ responses # <<>>
    /\ responses' = Tail(responses)
    /\ IF Len(Head(responses)) = Demand.need
       THEN got' = got \o Head(responses) /\ tpc' = "demand" /\ tres' = tres
       ELSE tres' = Panic /\ UNCHANGED <<got, tpc>>
    /\ UNCHANGED <<todo, pend, flushing, multiplexing, buffer_sink, tval>>
    /\ UNCHANGED <<queue, sent, requests, backVars, devVars, caseVars, orchVars>>

\* A bug: the source gives up on an empty response queue whether or not
\* the backend is still there.
SourceReceiveClosed_impatient ==
    /\ IsDec /\ tres = Running /\ tpc = "await"
    /\ responses = <<>>
    /\ tres' = Err("PrematureEof")
    /\ UNCHANGED <<todo, pend, flushing, multiplexing, buffer_sink, tpc, got, tval>>
    /\ UNCHANGED <<chanVars, backVars, devVars, caseVars, orchVars>>

\* recv_raw_data: blocking_recv() yields None (the queue is empty and its
\* sender gone): PrematureEof.
SourceReceiveClosed ==
    /\ IsDec /\ tres = Running /\ tpc = "await"
    /\ responses = <<>> /\ BackendGone
    /\ tres' = Err("PrematureEof")
    /\ UNCHANGED <<todo, pend, flushing, multiplexing, buffer_sink, tpc, got, tval>>
    /\ UNCHANGED <<chanVars, backVars, devVars, caseVars, orchVars>>

(* ---- streaming decode: the read backend (de ChannelBackend::run) ---- *)

Available == Len(input) - rpos

\* request_receiver.recv() yields a size: a zeroed vector of that size.
ReadRecv ==
    /\ IsDec /\ ~BackendGone /\ bpc = "recv"
    /\ requests # <<>>
    /\ need' = Head(requests)
    /\ requests' = Tail(requests)
    /\ buf' = <<>>
    /\ bpc' = IF Head(requests) = 0 THEN "send" ELSE "read"
    /\ UNCHANGED <<wrote, bres, eof_seen, queue, sent, responses>>
    /\ UNCHANGED <<travVars, devVars, caseVars, orchVars>>

\* A bug: the read after the loop is made whatever hard_eof is.
ReadClosed_probing ==
    /\ IsDec /\ ~BackendGone /\ bpc = "recv"
    /\ requests = <<>> /\ TraversalGone
    /\ bpc' = "probe" /\ bres' = bres
    /\ UNCHANGED <<buf, need, wrote, eof_seen>>
    /\ UNCHANGED <<travVars, chanVars, devVars, caseVars, orchVars>>

\* request_receiver.recv() yields None: the loop ends; with hard_eof one
\* more read follows, without it run returns Ok(()).
ReadClosed ==
    /\ IsDec /\ ~BackendGone /\ bpc = "recv"
    /\ requests = <<>> /\ TraversalGone
    /\ IF cfg.hard_eof
       THEN bpc' = "probe" /\ bres' = bres
       ELSE bpc' = "done" /\ bres' = Ok
    /\ UNCHANGED <<buf, need, wrote, eof_seen>>
    /\ UNCHANGED <<travVars, chanVars, devVars, caseVars, orchVars>>

\* A bug: the response is sent after one read, filled or not.
ReadDevice_single ==
    /\ IsDec /\ ~BackendGone /\ bpc = "read"
    /\ Available > 0
    /\ \E count \in 1..Min(Available, need - Len(buf)) :
          /\ buf' = buf \o SubSeq(input, rpos + 1, rpos + count)
          /\ rpos' = rpos + count
    /\ bpc' = "send"
    /\ UNCHANGED <<need, wrote, bres, eof_seen, written, input>>
    /\ UNCHANGED <<travVars, chanVars, caseVars, orchVars>>

\* device.read(&mut cursor) returns count > 0: any count the reader may
\* give, up to what it holds and what the cursor has room for.
ReadDevice ==
    /\ IsDec /\ ~BackendGone /\ bpc = "read"
    /\ Available > 0
    /\ \E count \in 1..Min(Available, need - Len(buf)) :
          /\ buf' = buf \o SubSeq(input, rpos + 1, rpos + count)
          /\ rpos' = rpos + count
          /\ bpc' = IF Len(buf) + count = need THEN "send" ELSE "read"
    /\ UNCHANGED <<need, wrote, bres, eof_seen, written, input>>
    /\ UNCHANGED <<travVars, chanVars, caseVars, orchVars>>

\* device.read(&mut cursor) returns 0, the end of the stream: PrematureEof
\* with hard_eof; without it the loop reads again (and gets 0 again: from
\* here on nothing changes).
ReadEof ==
    /\ IsDec /\ ~BackendGone /\ bpc = "read"
    /\ Available = 0
    /\ IF cfg.hard_eof
       THEN bres' = Err("PrematureEof") /\ bpc' = "done" /\ eof_seen' = eof_seen
       ELSE ~eof_seen /\ eof_seen' = TRUE /\ UNCHANGED <<bres, bpc>>
    /\ UNCHANGED <<buf, need, wrote>>
    /\ UNCHANGED <<travVars, chanVars, devVars, caseVars, orchVars>>

\* device.read fails: run returns Error::IO.
ReadIoError ==
    /\ IsDec /\ ~BackendGone /\ bpc \in {"read", "probe"}
    /\ bres' = Err("IO")
    /\ bpc' = "done"
    /\ UNCHANGED <<buf, need, wrote, eof_seen>>
    /\ UNCHANGED <<travVars, chanVars, devVars, caseVars, orchVars>>

\* response_sender.send(bytes).await, or Disconnected when the response
\* receiver is gone.
ReadSend ==
    /\ IsDec /\ ~BackendGone /\ bpc = "send"
    /\ IF TraversalGone
       THEN bres' = Err("Disconnected") /\ bpc' = "done" /\ UNCHANGED <<responses, buf>>
       ELSE /\ Len(responses) < cfg.response_channel_limit
            /\ responses' = Append(responses, buf)
            /\ buf' = <<>>
            /\ bpc' = "recv"
            /\ bres' = bres
    /\ UNCHANGED <<need, wrote, eof_seen, queue, sent, requests>>
    /\ UNCHANGED <<travVars, devVars, caseVars, orchVars>>

\* The read after the loop under hard_eof: a byte is ExpectedEof(byte), the
\* end of the stream is Ok(()).
ReadProbe ==
    /\ IsDec /\ ~BackendGone /\ bpc = "probe"
    /\ IF Available > 0
       THEN bres' = R("ExpectedEof", Num(input[rpos + 1])) /\ rpos' = rpos + 1
       ELSE bres' = Ok /\ rpos' = rpos
    /\ bpc' = "done"
    /\ UNCHANGED <<buf, need, wrote, eof_seen, written, input>>
    /\ UNCHANGED <<travVars, chanVars, caseVars, orchVars>>

(* ---- the sessions drawn ---- *)

\* The shapes a streaming decode of arbitrary input is drawn with.
DecShapes ==
    {U8, Char, Opt(U8), SeqOf(U8), Enum(<<U8, Unit>>), Tuple(<<U8, U8>>),
     Tuple(<<U8, PanicType>>), PanicType, Tuple(<<U8, CustomType>>)}

Prefixes(bs) == {SubSeq(bs, 1, n) : n \in 0..Len(bs)}

\* The inputs of a shape: every complete encoding of a value of it, every
\* prefix of one, one with a byte after it, and for char and enum a payload
\* no value encodes to.
InputsOf(s) ==
    LET encs == {serialize_into_buffer(v) : v \in {x \in ValuesOf(s, 2) : ~HasFault(x)}}
        odd == CASE s.t = "char" -> {<<0, 216, 0, 0>>, <<0, 216, 0, 0, 9>>}
                 [] s.t = "enum" -> {<<5, 0, 0, 0>>}
                 [] OTHER        -> {}
    IN UNION {Prefixes(e) \cup {e \o <<9>>} : e \in encs} \cup odd \cup {<<>>, <<1>>, <<1, 2>>}

\* The target types of deserialize_buffer: those of the streaming decode
\* and more scalars and containers.
BufDecShapes ==
    DecShapes \cup {Bool, I16, IntType("i128"), MapOf(U8, Bool), Enum(<<Tuple(<<U8, I16>>), Unit, SeqOf(U8)>>)}

\* The inputs of deserialize_buffer: those of the streaming decode, and
\* tags, code points, discriminators and lengths no encoder writes.
BufInputsOf(s) ==
    InputsOf(s)
    \cup CASE s.t = "bool" -> {<<2>>, <<255>>, <<128, 9>>}
           [] s.t = "opt"  -> {<<2, 7>>, <<255, 7>>, <<2>>, <<128, 7, 9>>}
           [] s.t = "char" -> {<<255, 215, 0, 0>>, <<255, 223, 0, 0>>, <<0, 224, 0, 0>>,
                               <<255, 255, 16, 0>>, <<0, 0, 17, 0>>, <<0, 0, 0, 1>>,
                               <<255, 255, 255, 255>>, <<255, 223, 0, 0, 9>>}
           [] s.t = "enum" -> {<<0, 0, 0, 1, 7>>, <<255, 255, 255, 255>>}
           [] s.t \in {"seq", "map"} ->
                {<<0, 0, 0, 0, 1, 0, 0, 0, 7>>, <<1, 0, 0, 64, 0, 0, 0, 0, 7, 7>>,
                 [i \in 1..8 |-> 255]}
           [] OTHER        -> {}

\* The configurations the builders make: a batch limit is never 0, a
\* channel limit may be.
Configs ==
    {Config(b, c, rq, rs, h) : b \in 1..MaxBatch, c \in 0..MaxQueue,
                               rq \in 0..MaxQueue, rs \in 0..MaxQueue, h \in BOOLEAN}

\* Config::serialize(device, value) about to spawn the traversal.
InitEnc ==
    /\ kind = "enc"
    /\ \E c \in StreamCases : shape = c.shape /\ val = c.val
    /\ cfg \in {c \in Configs : c.request_channel_limit = 1
                              /\ c.response_channel_limit = 1 /\ ~c.hard_eof}
    /\ todo = Events(val)
    /\ input = <<>>
    /\ IF cfg.channel_limit = 0 THEN Unspawned ELSE Fresh

\* Config::deserialize(device) about to spawn the traversal.
InitDec ==
    /\ kind = "dec"
    /\ shape \in DecShapes
    /\ val = NoValue
    /\ cfg \in {c \in Configs : c.batch_limit = 1 /\ c.channel_limit = 1}
    /\ todo = <<>>
    /\ input \in InputsOf(shape)
    /\ IF cfg.request_channel_limit = 0 \/ cfg.response_channel_limit = 0
       THEN Unspawned ELSE Fresh

\* Config::deserialize_buffer(buf) about to run on a caller's bytes.
InitDecBuf ==
    /\ kind = "decbuf"
    /\ shape \in BufDecShapes
    /\ val = NoValue
    /\ cfg \in {Config(1, 1, 1, 1, h) : h \in BOOLEAN}
    /\ todo = <<>>
    /\ input \in BufInputsOf(shape)
    /\ Fresh

Init == InitEnc \/ InitDec \/ InitDecBuf

\* Config::deserialize_buffer: the whole call (there is nothing concurrent
\* in it).
DecodeBuffer ==
    /\ kind = "decbuf" /\ opc = "backend"
    /\ LET r == deserialize_buffer(shape, input, cfg.hard_eof)
       IN outcome' = r.res /\ tval' = r.v
    /\ opc' = "returned"
    /\ UNCHANGED <<todo, pend, flushing, multiplexing, buffer_sink, tpc, got, tres>>
    /\ UNCHANGED <<chanVars, backVars, devVars, caseVars>>

\* The sizes a Deserializer reads at: none, a byte, an i16, a length.
ReadSizes == {0, 1, 2, 8}

\* What the buffer of a BufferSource holds.
SourceBuffers == {<<>>, <<1, 2, 3>>, <<2, 0, 0, 0, 0, 0, 0, 0, 7, 255>>}

\* BufferSource::new(buffer), and the reads a traversal is going to make
\* (todo: the size of each; got: the bytes copied out so far; rpos: the
\* cursor; tres: the result of the last read).
InitSource ==
    /\ kind = "source"
    /\ shape = Unit /\ val = NoValue
    /\ cfg = Config(1, 1, 1, 1, FALSE)
    /\ todo \in SeqsUpTo(ReadSizes, 3)
    /\ input \in SourceBuffers
    /\ Fresh

\* source.recv_raw_data(buf).
SourceRead ==
    /\ kind = "source" /\ todo # <<>>
    /\ LET r == BufferSource_recv_raw_data(input, rpos, Head(todo))
       IN rpos' = r.cursor /\ got' = got \o r.data /\ tres' = r.res
    /\ todo' = Tail(todo)
    /\ UNCHANGED <<pend, flushing, multiplexing, buffer_sink, tpc, tval>>
    /\ UNCHANGED <<chanVars, backVars, written, input, caseVars, orchVars>>

\* The in-memory calls: serialize_into_buffer, serialize_on_buffer,
\* with_batch_limit, deserialize_buffer and the reads of a BufferSource,
\* each on its own.
NextBuf ==
    \/ BufCall \/ BufReturn \/ BufDecode \/ DecodeBuffer \/ SourceRead
    \/ WithBatchLimit \/ WithChannelLimit
    \/ WithHardEof \/ WithRequestChannelLimit \/ WithResponseChannelLimit

InitBufAll ==
    InitBuf \/ InitOnBuf \/ InitConfig \/ InitDeConfig \/ InitDecBuf \/ InitSource

SpecBuf == InitBufAll /\ [][NextBuf]_vars

\* A streaming encode has returned Ok(()): a streaming decode of the bytes
\* written, by the shape of the value, under any decode configuration.
DecodeWritten ==
    /\ kind = "enc" /\ opc = "returned" /\ outcome = Ok
    /\ kind' = "roundtrip"
    /\ input' = written
    /\ \E c \in Configs :
          /\ c.batch_limit = cfg.batch_limit /\ c.channel_limit = cfg.channel_limit
          /\ c.request_channel_limit > 0 /\ c.response_channel_limit > 0
          /\ cfg' = c
    /\ todo' = <<>> /\ pend' = <<>> /\ flushing' = FALSE
    /\ multiplexing' = Channel /\ buffer_sink' = BufferSink_new
    /\ tpc' = "demand" /\ got' = <<>> /\ tres' = Running /\ tval' = NoValue
    /\ queue' = <<>> /\ requests' = <<>> /\ responses' = <<>>
    /\ bpc' = "recv" /\ buf' = <<>> /\ need' = 0 /\ wrote' = 0 /\ bres' = Running /\ eof_seen' = FALSE
    /\ rpos' = 0
    /\ opc' = "backend" /\ outcome' = Running
    /\ UNCHANGED <<shape, val, sent, written>>

Traversal ==
    \/ SinkCall \/ SinkSend \/ SinkDisconnected \/ SinkReturn
    \/ SourceReturn \/ SourceRequest \/ SourceReceive \/ SourceReceiveClosed

Backend ==
    \/ WriteRecv \/ WriteClosed \/ WriteAll \/ WriteFail
    \/ ReadRecv \/ ReadClosed \/ ReadDevice \/ ReadEof \/ ReadIoError
    \/ ReadSend \/ ReadProbe

Orchestrator == OrchBackend \/ OrchHandle \/ ChannelPanic

Next == Traversal \/ Backend \/ Orchestrator \/ DecodeWritten \/ DecodeBuffer

\* What the backend does when its device does not fail.
BackendProgress ==
    \/ WriteRecv \/ WriteClosed \/ WriteAll
    \/ ReadRecv \/ ReadClosed \/ ReadDevice \/ ReadEof \/ ReadSend \/ ReadProbe

\* The blocking worker runs the traversal, the async task the backend and
\* the orchestrator: each goes on whenever it can.  A device need never fail,
\* and a caller need never decode what it encoded.
Spec ==
    /\ Init /\ [][Next]_vars
    /\ WF_vars(Traversal) /\ WF_vars(BackendProgress) /\ WF_vars(Orchestrator)

(* ------------------------------ properties ---------------------------- *)

Returned == opc = "returned"
\* The streaming call created its channels and spawned its traversal.
Spawned == tpc # "unspawned"
IsErr(r) == r.k \notin {"running", "Ok", "panic"}
DepthOne ==
    /\ cfg.channel_limit = 1
    /\ cfg.request_channel_limit = 1
    /\ cfg.response_channel_limit = 1

\* C1: round-trip on the in-memory path: deserialize_buffer, by the same
\* shape, of the bytes serialize_into_buffer produced for v returns Ok with a
\* value equal to v.
C1_RoundTrip ==
    (kind = "buf" /\ Returned) => (outcome = Ok /\ tval = Known(val))

C1_Witness ==
    /\ kind = "buf" /\ Returned /\ outcome = Ok
    /\ val.t = "seq" /\ ~val.h /\ Len(val.k) = 2
    /\ val.k[1].t = "seq" /\ ~val.k[1].h /\ Len(val.k[1].k) = 2
    /\ tval = Known(val)

\* C2: a streaming encode that returned Ok wrote to the writer exactly the
\* bytes serialize_into_buffer produces for the same value, unknown-length
\* sequences included.
C2_StreamingEqualsBuffer ==
    (kind = "enc" /\ Returned /\ outcome = Ok)
        => written = serialize_into_buffer(val)

\* C3: length-hint invariance in the BufferSink: the buffer a traversal
\* leaves, whatever lengths its sequences and maps reported or withheld, is
\* the buffer the same value leaves with every length reported.
C3_HintInvariance ==
    (kind = "buf" /\ tres = Ok) => input = serialize_into_buffer(Known(val))

C3_Witness ==
    /\ kind = "buf" /\ tres = Ok
    /\ val.t = "seq" /\ ~val.h /\ Len(val.k) = 2
    /\ val.k[1].t = "seq" /\ ~val.k[1].h /\ Len(val.k[1].k) = 1
    /\ val.k[2].t = "seq" /\ val.k[2].h /\ Len(val.k[2].k) = 2
    /\ input = serialize_into_buffer(Known(val))

\* C4: for a value whose sequences and maps all report their length, a
\* streaming encode that returned Ok wrote exactly the bytes of
\* serialize_into_buffer, under every batch limit and queue depth drawn.
C4_KnownLengthStreaming ==
    (kind = "enc" /\ Returned /\ outcome = Ok /\ ~HasUnknown(val))
        => written = serialize_into_buffer(val)

C4_Witness ==
    /\ kind = "enc" /\ Returned /\ outcome = Ok /\ ~HasUnknown(val)
    /\ cfg.batch_limit = MaxBatch /\ cfg.channel_limit = MaxQueue
    /\ val.t = "seq" /\ Len(val.k) = 2
    /\ val.k[1].t = "seq" /\ Len(val.k[1].k) = 2
    /\ written = serialize_into_buffer(val)

\* C5: ordering in a streaming encode: at every moment the bytes the writer
\* has received are a prefix of the bytes the sink put on the queue.
C5_WrittenPrefixOfSent == IsPrefix(written, sent)

C5_Witness ==
    /\ kind = "enc" /\ cfg.batch_limit = MaxBatch /\ cfg.channel_limit = MaxQueue
    /\ Len(written) >= 9 /\ Len(written) < Len(sent)
    /\ queue # <<>>
    /\ IsPrefix(written, sent)

\* C6: with every queue depth 1, a streaming encode followed by a streaming
\* decode whose devices did not fail returns the original value.
C6_DepthOneRoundTrip ==
    (kind = "roundtrip" /\ DepthOne /\ Returned /\ outcome.k # "IO")
        => (outcome = Ok /\ tval = Known(val))

\* C7: a streaming session that returned, its traversal and backend joined,
\* gives the traversal's result if the backend succeeded, and the backend's
\* error otherwise.
C7_JoinedResult ==
    (IsStream /\ Spawned /\ Returned)
        => outcome = (IF bres = Ok THEN tres ELSE bres)

C7_Witness ==
    /\ IsStream /\ Returned
    /\ IsErr(bres) /\ IsErr(tres) /\ bres # tres
    /\ outcome = bres

\* C8: a panic of the traversal is re-raised by the session, never replaced
\* by a returned error value (here: even when no device fails).
C8_PanicReRaised ==
    (IsStream /\ Returned /\ tres = Panic /\ outcome.k # "IO")
        => outcome = Panic

\* C9: a streaming session has returned to its caller only when both the
\* backend and the traversal have completed (here: even when no device
\* fails).
C9_JoinedAfterBoth ==
    (IsStream /\ Spawned /\ Returned /\ outcome.k # "IO")
        => (BackendGone /\ TraversalGone)

\* C10: every read of the streaming source that has asked for bytes
\* eventually returns: filled, or failed.
C10_ReadReturns ==
    (IsDec /\ tres = Running /\ tpc = "await")
        ~> (tpc = "demand" \/ tres # Running)

\* What the decoder makes of the whole input of a decode.
Whole == Dec(shape, input, 0)
IsDecode == kind \in {"dec", "roundtrip", "decbuf"}

\* C11: with hard_eof set, a decode (in memory or streaming, its queues
\* created and the device not failing) of input that holds bytes after the complete value fails with
\* ExpectedEof(b), b the first byte not consumed.
C11_TrailingRejected ==
    (IsDecode /\ Spawned /\ cfg.hard_eof /\ Returned /\ outcome.k # "IO"
       /\ Whole.st = "ok" /\ Whole.c < Len(input))
        => outcome = R("ExpectedEof", Num(input[Whole.c + 1]))

C11_Witness ==
    /\ kind = "dec" /\ cfg.hard_eof /\ Returned
    /\ shape = SeqOf(U8) /\ input = <<1, 0, 0, 0, 0, 0, 0, 0, 7, 9>>
    /\ tres = Ok /\ rpos = 10
    /\ outcome = R("ExpectedEof", Num(9))

\* C12: with hard_eof set, a decode (in memory or streaming, its queues
\* created and the device not failing) of input that ends before the shape is complete fails with
\* PrematureEof.
C12_ShortRejected ==
    (IsDecode /\ Spawned /\ cfg.hard_eof /\ Returned /\ outcome.k # "IO"
       /\ Whole.st = "eof")
        => outcome = Err("PrematureEof")

C12_Witness ==
    /\ kind = "dec" /\ cfg.hard_eof /\ Returned
    /\ shape = Tuple(<<U8, U8>>) /\ input = <<7>>
    /\ got = <<7>> /\ bres = Err("PrematureEof")
    /\ outcome = Err("PrematureEof")

\* C13: a response on the queue answers the request the traversal is waiting
\* on: it holds exactly as many bytes as were asked for, the next ones of the
\* input, so copy_from_slice never meets a length other than buf.len().
C13_ResponseExact ==
    /\ (IsDec /\ responses # <<>>)
          => /\ Len(responses) = 1 /\ tres = Running /\ tpc = "await"
             /\ Len(responses[1]) = Demand.need
             /\ responses[1] = SubSeq(input, Len(got) + 1, Len(got) + Demand.need)
    /\ (IsDec /\ tres = Panic) => Demand.st = "panic"

C13_Witness ==
    /\ kind = "dec" /\ shape = SeqOf(U8) /\ cfg.response_channel_limit = MaxQueue
    /\ got = <<>> /\ tpc = "await" /\ rpos = 8
    /\ responses = <<(<<1, 0, 0, 0, 0, 0, 0, 0>>)>>

\* C14: the write backend returns Ok only after the sink is dropped, and by
\* then it has written every byte the sink put on the queue, whether the
\* traversal finished or failed.
C14_NoByteLostAtClose ==
    (kind = "enc" /\ bres = Ok)
        => (TraversalGone /\ queue = <<>> /\ buf = <<>> /\ written = sent)

C14_Witness ==
    /\ kind = "enc" /\ bres = Ok
    /\ shape = Tuple(<<U8, CustomType>>) /\ tres = Err("Custom")
    /\ sent = <<7>> /\ written = <<7>>

\* C15: once the backend is gone the traversal is never blocked: while it has
\* not ended it can always take its next step, and the step of a sink with
\* bytes to send is to fail with Disconnected, the step of a source with a
\* read to make or to wait for is to fail with PrematureEof.
C15_PeerGoneUnblocks ==
    /\ []((IsStream /\ BackendGone /\ tres = Running) => ENABLED Traversal)
    /\ [][(kind = "enc" /\ BackendGone /\ tres = Running /\ pend # <<>>
             /\ tres' # tres)
            => tres' = Err("Disconnected")]_vars
    /\ [][(IsDec /\ BackendGone /\ tres = Running /\ responses = <<>>
             /\ Demand.st = "eof" /\ tres' # tres)
            => tres' = Err("PrematureEof")]_vars

C15_Witness ==
    /\ kind = "enc" /\ bres = Err("IO") /\ tres = Err("Disconnected")
    /\ pend # <<>> /\ todo # <<>>

\* No traversal is in progress on the BufferSink: it was just constructed, or
\* the traversal returned Ok (its calls balanced).
BufferSinkIdle ==
    IsBuf /\ ((tres = Running /\ todo = Events(val)) \/ tres = Ok)

\* C16: whenever no traversal is in progress on a BufferSink, over a fresh or
\* a caller's buffer, its routine stack is empty and its cursor is the
\* length of the buffer.
C16_IdleBufferSink ==
    BufferSinkIdle
        => /\ buffer_sink.current_routine = Resolved(0)
           /\ buffer_sink.parent_routines = <<>>
           /\ buffer_sink.cursor = Len(buffer_sink.buffer)

\* C17: after a streaming traversal that returned Ok the ChannelSink's depth
\* counter is zero and its fallback buffer is empty: no byte is held back.
C17_CleanChannelSink ==
    (kind = "enc" /\ tres = Ok)
        => (multiplexing.inner_seqs = 0 /\ buffer_sink.buffer = <<>>)

\* C18: with_batch_limit(0) fails with BufLimitTooLow(0) and leaves the
\* configuration as it was; with_batch_limit(n), n >= 1, succeeds and stores
\* n as the batch size.
C18_BatchLimit ==
    [][(kind = "config" /\ todo # <<>> /\ todo' = Tail(todo)
        /\ Head(todo).f = "with_batch_limit")
        => LET n == Head(todo).n
           IN IF n = 0
              THEN outcome' = R("BufLimitTooLow", Num(0)) /\ cfg' = cfg
              ELSE outcome' = Ok /\ cfg' = [cfg EXCEPT !.batch_limit = n]]_vars

C18_Witness ==
    /\ kind = "config" /\ todo = <<[f |-> "with_batch_limit", n |-> 1]>>
    /\ outcome = R("BufLimitTooLow", Num(0))
    /\ cfg.batch_limit = MaxBatch

\* The encodings of the children of a value, one after the other.
ChildEncodings(v) == Concat([i \in 1..Len(v.k) |-> serialize_into_buffer(v.k[i])])

\* The number of entries of a sequence or map.
Entries(v) == IF v.t = "map" THEN Len(v.k) \div 2 ELSE Len(v.k)

\* C19: a sequence or map of N entries is written as the 64-bit
\* little-endian N, then the encodings of its elements in iteration order
\* (a map's key, then its value), and nothing more.
C19_SeqEncoding ==
    (kind = "enc" /\ Returned /\ outcome = Ok /\ val.t \in {"seq", "map"})
        => written = LE(Num(Entries(val)), 8) \o ChildEncodings(val)

\* C20: a tuple or struct is written as the encodings of its fields one
\* after the other in declaration order, and nothing more.
C20_FieldsConcatenated ==
    (kind = "enc" /\ Returned /\ outcome = Ok /\ val.t = "tuple")
        => written = ChildEncodings(val)

\* C21: a sum variant is written as its 0-based ordinal in 32 bits, least
\* significant byte first, then its payload with no length before it (no
\* byte for a unit variant), on both paths; the decoder reads the 32-bit
\* discriminator, decodes the payload by the rule of the variant it selects
\* and returns that variant with that payload.
C21_VariantEncoding ==
    /\ (kind = "buf" /\ tres = Ok /\ val.t = "variant")
          => /\ input = LE(val.n, 4) \o serialize_into_buffer(val.k[1])
             /\ SubSeq(input, 1, 4) = <<Small(val.n), 0, 0, 0>>
             /\ StreamBytes(val) = LE(val.n, 4) \o StreamBytes(val.k[1])
             /\ (val.k[1].t = "unit" => Len(input) = 4)
    /\ (kind = "buf" /\ Returned /\ val.t = "variant")
          => (outcome = Ok /\ tval = Known(val))
    /\ (kind = "decbuf" /\ Returned /\ shape.t = "enum" /\ Len(input) >= 4
          /\ input[1] < Len(shape.k) /\ input[2] = 0 /\ input[3] = 0 /\ input[4] = 0)
          => LET ordinal == input[1]
                 payload == deserialize_buffer(shape.k[ordinal + 1],
                                               SubSeq(input, 5, Len(input)), cfg.hard_eof)
             IN /\ outcome = payload.res
                /\ outcome = Ok => tval = V("variant", Num(ordinal), <<payload.v>>, TRUE)

C21_Witness ==
    /\ kind = "buf" /\ Returned /\ outcome = Ok
    /\ val.t = "variant" /\ val.n = Num(1) /\ val.k[1].t = "tuple"
    /\ input = <<1, 0, 0, 0, 255, 253, 255, 1>>

\* C22: an absent optional is written as the byte 0 alone, a present one as
\* the byte 1 and then the payload's encoding, on both paths; the decoder
\* reads one tag byte, returns absent for 0 without reading another byte,
\* and for every other tag returns present with the payload decoded from
\* the bytes after the tag.
C22_Optional ==
    /\ (kind = "buf" /\ tres = Ok /\ val.t = "opt")
          => /\ input = (IF val.k = <<>> THEN <<0>>
                         ELSE <<1>> \o serialize_into_buffer(val.k[1]))
             /\ StreamBytes(val) = (IF val.k = <<>> THEN <<0>>
                                    ELSE <<1>> \o StreamBytes(val.k[1]))
    /\ (kind = "buf" /\ Returned /\ val.t = "opt")
          => (outcome = Ok /\ tval = Known(val))
    /\ (kind = "decbuf" /\ Returned /\ shape.t = "opt" /\ input # <<>>)
          => IF input[1] = 0
             THEN /\ outcome = (IF cfg.hard_eof /\ Len(input) > 1
                                THEN R("ExpectedEof", Num(input[2])) ELSE Ok)
                  /\ outcome = Ok => tval = V("opt", Num(0), <<>>, TRUE)
             ELSE LET payload == deserialize_buffer(shape.k[1], Tail(input), cfg.hard_eof)
                  IN /\ outcome = payload.res
                     /\ outcome = Ok => tval = V("opt", Num(1), <<payload.v>>, TRUE)

C22_Witness ==
    /\ kind = "decbuf" /\ Returned /\ shape = Opt(U8)
    /\ input = <<2, 7>> /\ outcome = Ok
    /\ tval = V("opt", Num(1), <<V("u8", Num(7), <<>>, TRUE)>>, TRUE)

\* C23: a boolean is written as exactly one byte, 0 for false and 1 for
\* true, on both paths; the decoder reads exactly one byte and returns
\* false for 0 and true for every other byte.
C23_Boolean ==
    /\ (kind = "buf" /\ tres = Ok /\ val.t = "bool")
          => /\ val.n \in {Num(0), Num(1)}
             /\ input = <<IF val.n = Num(1) THEN 1 ELSE 0>>
             /\ StreamBytes(val) = input
    /\ (kind = "buf" /\ Returned /\ val.t = "bool")
          => (outcome = Ok /\ tval = val)
    /\ (kind = "decbuf" /\ Returned /\ shape = Bool)
          => /\ outcome = (IF input = <<>> THEN Err("PrematureEof")
                            ELSE IF cfg.hard_eof /\ Len(input) > 1
                            THEN R("ExpectedEof", Num(input[2])) ELSE Ok)
             /\ outcome = Ok
                  => tval = V("bool", Num(IF input[1] = 0 THEN 0 ELSE 1), <<>>, TRUE)

C23_Witness ==
    /\ kind = "decbuf" /\ Returned /\ shape = Bool
    /\ input = <<128, 9>> /\ outcome = Ok /\ tval.n = Num(1)

\* C24: an integer of 8, 16, 32, 64 or 128 bits is written as exactly
\* width/8 bytes, least significant first, a negative one in two's
\* complement (-3 as i16 is FD FF), on both paths; the decoder returns the
\* same integer from those bytes.
C24_FixedWidthIntegers ==
    LET bits == CASE val.t \in {"u8", "i8"}     -> 8
                  [] val.t \in {"u16", "i16"}   -> 16
                  [] val.t \in {"u32", "i32"}   -> 32
                  [] val.t \in {"u64", "i64"}   -> 64
                  [] val.t \in {"u128", "i128"} -> 128
                  [] OTHER                      -> 0
        width == bits \div 8
        \* the magnitude's base-256 digits, least significant first
        digit(i) == LET j == (i + 1) \div 2
                        limb == IF j <= Len(val.n.mag) THEN val.n.mag[j] ELSE 0
                    IN IF i % 2 = 1 THEN limb % 256 ELSE limb \div 256
        \* the carry into byte i of the sum of the bytes written and the
        \* magnitude, when that sum is 2^bits
        carry(i) == IF \E j \in 1..(i - 1) : digit(j) # 0 THEN 1 ELSE 0
    IN /\ (kind = "buf" /\ tres = Ok /\ bits > 0)
             => /\ Len(input) = width
                /\ (~val.n.neg => \A i \in 1..width : input[i] = digit(i))
                /\ (val.n.neg => \A i \in 1..width :
                                     (input[i] + digit(i) + carry(i)) % 256 = 0)
                /\ (val.t \in SignedTags => (input[width] >= 128) = val.n.neg)
                /\ StreamBytes(val) = input
                /\ (val.t \in UnsignedTags => ~val.n.neg)
       /\ (kind = "buf" /\ tres = Ok /\ val = V("i16", Num(-3), <<>>, TRUE))
             => input = <<253, 255>>
       /\ (kind = "buf" /\ tres = Ok /\ val.t = "u32" /\ val.n.mag = <<65535, 65535>>)
             => input = <<255, 255, 255, 255>>
       /\ (kind = "buf" /\ tres = Ok /\ val.t = "i64" /\ val.n.mag = <<0, 0, 0, 32768>>)
             => input = <<0, 0, 0, 0, 0, 0, 0, 128>>
       /\ (kind = "buf" /\ Returned /\ bits > 0)
             => (outcome = Ok /\ tval = val)

C24_Witness ==
    /\ kind = "buf" /\ Returned /\ outcome = Ok
    /\ val = V("i128", [neg |-> TRUE, mag |-> <<0, 0, 0, 0, 0, 0, 0, 32768>>], <<>>, TRUE)
    /\ tval = val
    /\ input = <<0, 0, 0, 0, 0, 0, 0, 0, 0, 0, 0, 0, 0, 0, 0, 128>>

\* C25: decoding a char reads a 32-bit little-endian value and fails with
\* InvalidCodePoint(value) when the value is a surrogate (D800..DFFF) or is
\* above 10FFFF, and returns the char of that value otherwise; every char
\* the encoder writes decodes to the same char.
C25_CharDecoding ==
    /\ (kind = "decbuf" /\ Returned /\ shape = Char /\ Len(input) >= 4)
          => LET lo == input[1] + 256 * input[2]
                 hi == input[3] + 256 * input[4]
                 \* the value is lo + 65536 * hi
                 value == [neg |-> FALSE,
                           mag |-> IF hi # 0 THEN <<lo, hi>>
                                   ELSE IF lo # 0 THEN <<lo>> ELSE <<>>]
                 invalid == (hi = 0 /\ lo \in 55296..57343) \/ hi > 16
             IN IF invalid THEN outcome = R("InvalidCodePoint", value)
                ELSE /\ outcome = (IF cfg.hard_eof /\ Len(input) > 4
                                   THEN R("ExpectedEof", Num(input[5])) ELSE Ok)
                     /\ outcome = Ok => tval = V("char", value, <<>>, TRUE)
    /\ (kind = "buf" /\ Returned /\ val.t = "char")
          => (outcome = Ok /\ tval = val /\ Len(input) = 4)

C25_Witness ==
    /\ kind = "decbuf" /\ Returned /\ shape = Char
    /\ input = <<255, 255, 255, 255>>
    /\ outcome = R("InvalidCodePoint", [neg |-> FALSE, mag |-> <<65535, 65535>>])

\* C26: decoding a sequence or map reads the 64-bit length N, returns
\* exactly N elements (N keys and N values) and reads no byte after the
\* last of them; decoding a tuple or struct returns exactly as many fields
\* as the type declares and reads no byte after the last.  (The elements
\* and fields here are one byte each: the bytes read are counted.)
C26_ExactCount ==
    LET container == shape.t \in {"seq", "map"}
        flat == shape.t \in {"seq", "map", "tuple"}
                /\ \A i \in 1..Len(shape.k) : shape.k[i] \in {U8, Bool}
        \* the length N, when it is below 2^24
        wide == \E i \in 4..8 : input[i] # 0
        N == input[1] + 256 * input[2] + 65536 * input[3]
        count == IF container THEN N * Len(shape.k) ELSE Len(shape.k)
        read == IF container THEN 8 + count ELSE count
    IN /\ (kind \in {"dec", "roundtrip"} /\ flat /\ tres = Ok)
             => (Len(tval.k) = count /\ got = SubSeq(input, 1, read))
       /\ (kind = "decbuf" /\ flat /\ Returned /\ outcome = Ok)
             => (Len(tval.k) = count /\ Len(input) >= read
                 /\ (cfg.hard_eof => Len(input) = read))
       /\ (kind = "decbuf" /\ flat /\ Returned /\ cfg.hard_eof
           /\ Len(input) >= (IF container THEN 8 ELSE 0)
           /\ ~(container /\ wide) /\ Len(input) > read)
             => outcome = R("ExpectedEof", Num(input[read + 1]))
       /\ (kind = "decbuf" /\ flat /\ Returned /\ container /\ Len(input) >= 8 /\ wide)
             => outcome = Err("PrematureEof")

C26_Witness ==
    /\ kind = "dec" /\ shape = SeqOf(U8) /\ tres = Ok
    /\ input = <<1, 0, 0, 0, 0, 0, 0, 0, 7, 9>>
    /\ got = <<1, 0, 0, 0, 0, 0, 0, 0, 7>> /\ Len(tval.k) = 1

\* C27: a request to skip a field of a struct or of a struct variant fails
\* with SkipNotAllowed and writes no byte: the traversal ends with that
\* error, and the buffer holds the bytes written before the request (the
\* variant's discriminator, the first field) and nothing else.
C27_SkipNotAllowed ==
    LET variant == val.t = "variant"
        fields == IF variant THEN val.k[1].k ELSE val.k
        skipping == val.t \in {"tuple", "variant"} /\ Len(fields) >= 2
                    /\ fields[2].t = "skip"
        requested == Len(todo) <= Len(fields) - 2
    IN (kind = "buf" /\ skipping /\ requested)
         => /\ tres = Err("SkipNotAllowed")
            /\ outcome = Running
            /\ buffer_sink.buffer = (IF variant THEN LE(val.n, 4) ELSE <<>>)
                                    \o serialize_into_buffer(fields[1])

C27_Witness ==
    /\ kind = "buf" /\ val.t = "variant" /\ val.n = Num(1)
    /\ val.k[1].k[2].t = "skip"
    /\ tres = Err("SkipNotAllowed")
    /\ buffer_sink.buffer = <<1, 0, 0, 0, 255>>

\* C28: the end_var that closes the outermost unknown-length container (the
\* ChannelSink in Buffer mode, no inner container open) leaves the sink in
\* Channel mode, so that what is written next goes to the queue.
C28_BackToChannel ==
    [][(/\ kind = "enc" /\ tres = Running /\ pend = <<>> /\ todo # <<>>
        /\ Head(todo).op = "end_var"
        /\ multiplexing.mode = "Buffer" /\ multiplexing.inner_seqs = 0
        /\ todo' = Tail(todo))
         => multiplexing' = Channel]_vars

\* C29: an unknown-length sequence inside an unknown-length sequence is
\* flushed with a length prefix that counts its elements: the bytes sent
\* hold the 64-bit count of the first inner sequence's elements and, right
\* after it, those elements.
C29_NestedPrefix ==
    (/\ kind = "enc" /\ tres = Ok
     /\ val.t = "seq" /\ ~val.h /\ val.k # <<>>
     /\ val.k[1].t = "seq" /\ ~val.k[1].h)
      => LET m == Len(val.k[1].k)
             elements == ChildEncodings(val.k[1])
         IN \E p \in 0..Len(sent) :
               /\ p + 8 + Len(elements) <= Len(sent)
               /\ SubSeq(sent, p + 1, p + 8) = LE(Num(m), 8)
               /\ SubSeq(sent, p + 9, p + 8 + Len(elements)) = elements

\* C30: while the ChannelSink is in Buffer mode a write_raw, a begin_var, an
\* advance_var and an end_var with an inner container open hand no byte to
\* the queue; a byte sent in Buffer mode belongs to the flush of an end_var
\* with no inner container open.
C30_BufferModeSilent ==
    /\ [][(/\ kind = "enc" /\ todo # <<>> /\ todo' = Tail(todo)
            /\ multiplexing.mode = "Buffer"
            /\ ~(Head(todo).op = "end_var" /\ multiplexing.inner_seqs = 0))
             => (pend' = <<>> /\ sent' = sent /\ queue' = queue)]_vars
    /\ [][(kind = "enc" /\ multiplexing.mode = "Buffer" /\ sent' # sent)
             => flushing]_vars
    /\ []((kind = "enc" /\ multiplexing.mode = "Buffer" /\ pend # <<>>) => flushing)

C30_Witness ==
    /\ kind = "enc" /\ tres = Running
    /\ multiplexing.mode = "Buffer" /\ multiplexing.inner_seqs = 1
    /\ Head(todo).op = "end_var"
    /\ Len(buffer_sink.buffer) = 8 + MaxLen
    /\ sent = <<>> /\ queue = <<>> /\ pend = <<>>

\* C31: on a BufferSink, begin_var(Some(n)) with a Resolved routine on top
\* adds one to its count of open containers and pushes nothing; with a
\* Resolving routine on top it pushes that routine and makes Resolved with
\* count 1 the top; end_var with a Resolved routine on top takes one from
\* its count, and when the count reaches zero pops it: the enclosing
\* Resolving routine is the top again, its placeholder offset and element
\* count as they were.
C31_FramePolicy ==
    [][(IsBuf /\ tres = Running /\ todo # <<>> /\ todo' = Tail(todo))
        => LET ev == Head(todo)
               cur == buffer_sink.current_routine
               parents == buffer_sink.parent_routines
               after == buffer_sink'.current_routine
               parents_after == buffer_sink'.parent_routines
           IN /\ (ev.op = "begin_var" /\ ev.known /\ cur.tag = "Resolved")
                    => (after = Resolved(cur.seqs + 1) /\ parents_after = parents)
              /\ (ev.op = "begin_var" /\ ev.known /\ cur.tag = "Resolving")
                    => (after = Resolved(1) /\ parents_after = Append(parents, cur))
              /\ (ev.op = "end_var" /\ cur.tag = "Resolved" /\ cur.seqs > 1)
                    => (after = Resolved(cur.seqs - 1) /\ parents_after = parents)
              /\ (ev.op = "end_var" /\ cur.tag = "Resolved" /\ cur.seqs = 1
                  /\ parents # <<>>)
                    => /\ after = parents[Len(parents)]
                       /\ after.tag = "Resolving"
                       /\ parents_after = SubSeq(parents, 1, Len(parents) - 1)
              /\ (ev.op = "end_var" /\ cur.tag = "Resolved" /\ cur.seqs = 1
                  /\ parents = <<>>)
                    => (after = Resolved(0) /\ parents_after = <<>>)]_vars

C31_Witness ==
    /\ kind = "buf" /\ tres = Running
    /\ buffer_sink.current_routine = Resolving(0, 2)
    /\ buffer_sink.parent_routines = <<>>
    /\ val.t = "seq" /\ ~val.h /\ Len(val.k) = 2 /\ val.k[2].h
    /\ todo = <<EndVar>>

\* C32: on a BufferSink, end_var with a Resolving routine on top writes the
\* routine's element count, 64 bits least significant byte first, over the
\* 8 bytes at the routine's placeholder offset, leaves the cursor, the
\* length of the buffer and every other byte as they were, and pops the
\* routine.
C32_BackPatch ==
    [][(/\ IsBuf /\ tres = Running /\ todo # <<>> /\ todo' = Tail(todo)
        /\ Head(todo).op = "end_var"
        /\ buffer_sink.current_routine.tag = "Resolving")
        => LET cur == buffer_sink.current_routine
               parents == buffer_sink.parent_routines
               before == buffer_sink.buffer
               after == buffer_sink'.buffer
           IN /\ Len(after) = Len(before)
              /\ cur.cursor + 8 <= Len(before)
              /\ \A i \in 1..Len(before) :
                    after[i] = IF i > cur.cursor /\ i <= cur.cursor + 8
                               THEN LE(Num(cur.seq_size), 8)[i - cur.cursor]
                               ELSE before[i]
              /\ buffer_sink'.cursor = buffer_sink.cursor
              /\ buffer_sink'.current_routine
                    = (IF parents = <<>> THEN Resolved(0) ELSE parents[Len(parents)])
              /\ buffer_sink'.parent_routines
                    = SubSeq(parents, 1, Len(parents) - 1)]_vars

C32_Witness ==
    /\ kind = "buf" /\ tres = Running /\ todo = <<EndVar>>
    /\ val.t = "seq" /\ ~val.h /\ Len(val.k) = 2 /\ ~val.k[2].h
    /\ buffer_sink.current_routine = Resolving(0, 2)
    /\ buffer_sink.cursor = Len(buffer_sink.buffer)
    /\ SubSeq(buffer_sink.buffer, 1, 8) = LE(Num(0), 8)
    /\ \E p \in 9..(Len(buffer_sink.buffer) - 8) :
          SubSeq(buffer_sink.buffer, p, p + 8) = LE(Num(1), 8) \o <<7>>

\* C33: on a BufferSink, write_raw(data) with the cursor at c in a buffer of
\* length L puts data at the offsets c .. c+len(data): over the bytes the
\* buffer has there, and past its end for the rest; every other byte stays,
\* the cursor becomes c+len(data) and the length max(L, c+len(data)).  (A
\* begin_var writes its 8 length bytes the same way.)
C33_WriteRaw ==
    [][(/\ IsBuf /\ tres = Running /\ todo # <<>> /\ todo' = Tail(todo)
        /\ Head(todo).op \in {"write_raw", "begin_var"})
        => LET ev == Head(todo)
               data == IF ev.op = "write_raw" THEN ev.data
                       ELSE LE(Num(IF ev.known THEN ev.n ELSE 0), 8)
               c == buffer_sink.cursor
               L == Len(buffer_sink.buffer)
               after == buffer_sink'.buffer
           IN /\ c <= L
              /\ Len(after) = (IF L > c + Len(data) THEN L ELSE c + Len(data))
              /\ \A i \in 1..Len(after) :
                    after[i] = IF i > c /\ i <= c + Len(data) THEN data[i - c]
                               ELSE buffer_sink.buffer[i]
              /\ buffer_sink'.cursor = c + Len(data)]_vars

C33_Witness ==
    /\ kind = "onbuf" /\ tres = Running /\ todo = <<>>
    /\ val = V("u8", Num(7), <<>>, TRUE)
    /\ buffer_sink.buffer = <<7, 2, 3>> /\ buffer_sink.cursor = 1

\* C34: every write_all of the write backend carries at least 1 and at most
\* batch_limit bytes, the bytes at the front of the queue in their order,
\* taken into a batch buffer that was empty; the device receives the bytes
\* of the batch in order, a piece at a time, and no other byte; the backend
\* returns Ok only when the queue is empty and its sender dropped,
\* everything sent written.
C34_WriteBatches ==
    /\ []((kind = "enc" /\ bpc = "recv") => (buf = <<>> /\ wrote = 0))
    /\ []((kind = "enc" /\ bpc = "write")
            => /\ Len(buf) >= 1 /\ Len(buf) <= cfg.batch_limit /\ wrote < Len(buf)
               /\ Len(written) >= wrote
               /\ SubSeq(written, Len(written) - wrote + 1, Len(written))
                     = SubSeq(buf, 1, wrote))
    /\ [][(kind = "enc" /\ bpc = "recv" /\ bpc' = "write")
            => /\ Len(buf') >= 1 /\ Len(buf') <= cfg.batch_limit
               /\ queue = buf' \o queue']_vars
    /\ [][(kind = "enc" /\ written' # written)
            => /\ bpc = "write"
               /\ \E count \in 1..(Len(buf) - wrote) :
                     written' = written \o SubSeq(buf, wrote + 1, wrote + count)]_vars
    /\ [][(kind = "enc" /\ bres = Running /\ bres' = Ok)
            => (queue = <<>> /\ TraversalGone /\ written = sent)]_vars

C34_Witness ==
    /\ kind = "enc" /\ bres = Ok /\ tres = Ok
    /\ cfg.batch_limit = MaxBatch /\ cfg.channel_limit = MaxQueue
    /\ Len(written) = 8 + MaxLen /\ written = sent

\* C35: in a streaming decode at most one pull request is outstanding,
\* whatever the limits of the two queues: the request queue, the backend
\* and the response queue hold at most one request or its response between
\* them, only while the source waits for it, and the response in the queue
\* has the size the source asked for last.
C35_OneOutstanding ==
    IsDec =>
      LET serving == IF ~BackendGone /\ bpc \in {"read", "send"} THEN 1 ELSE 0
          outstanding == Len(requests) + serving + Len(responses)
      IN /\ Len(requests) <= 1 /\ Len(responses) <= 1
         /\ outstanding <= 1
         /\ outstanding = 1 => tpc = "await"
         /\ (tres = Running /\ tpc = "await" /\ ~BackendGone) => outstanding = 1
         /\ (responses # <<>> /\ tres = Running)
              => Len(Head(responses)) = Demand.need

C35_Witness ==
    /\ kind = "dec" /\ tres = Running /\ tpc = "await"
    /\ cfg.request_channel_limit = MaxQueue /\ cfg.response_channel_limit = MaxQueue
    /\ got # <<>> /\ requests = <<>> /\ Len(responses) = 1

\* C36: the read backend takes from the reader the bytes the pull requests
\* asked for and no other: what it has read is what the source received,
\* the response in the queue and the response being filled, never more
\* than was asked for; without hard_eof that is all, so that the bytes
\* after a decoded value stay in the reader; with hard_eof it reads at most
\* one byte more (the byte ExpectedEof reports).
C36_NoReadAhead ==
    IsDec =>
      LET requested == Len(got) + (IF tpc = "await" THEN Demand.need ELSE 0)
          probed == IF bres.k = "ExpectedEof" THEN 1 ELSE 0
          answered == IF responses = <<>> THEN <<>> ELSE Head(responses)
      IN /\ rpos <= Len(input)
         /\ SubSeq(input, 1, rpos - probed) = got \o answered \o buf
         /\ rpos - probed <= requested
         /\ (~cfg.hard_eof => probed = 0)
         /\ (Returned /\ outcome = Ok) => rpos = Len(got)

C36_Witness ==
    /\ kind = "dec" /\ ~cfg.hard_eof /\ Returned /\ outcome = Ok
    /\ shape = Tuple(<<U8, U8>>)
    /\ rpos = 2 /\ Len(input) = 3

\* C37: a streaming decode (its queues created) whose reader does not fail
\* returns what
\* deserialize_buffer returns for the same bytes, target type and hard_eof:
\* the same value, or an error of the same kind (the error of the traversal
\* when the traversal fails, whatever bytes are left).  The target types
\* are those whose own Deserialize impl neither panics nor fails.
C37_StreamingDecodeEqualsBuffer ==
    (kind = "dec" /\ Spawned /\ Returned /\ outcome.k # "IO" /\ ~ShapeHasFault(shape))
      => LET direct == deserialize_buffer(shape, input, cfg.hard_eof)
         IN /\ outcome.k = direct.res.k
            /\ outcome = Ok => tval = direct.v

\* C38: serialize_on_buffer over a buffer that holds bytes keeps those
\* bytes and appends the value's encoding: the buffer always starts with
\* what it held, and after Ok(()) it is that followed by the encoding.
C38_OnBufferAppends ==
    kind = "onbuf"
      => /\ IsPrefix(got, buffer_sink.buffer)
         /\ tres = Ok => buffer_sink.buffer = got \o serialize_into_buffer(val)

\* C39: in a streaming decode the read backend never fails with
\* Disconnected: while it holds a pull request to answer (it is reading for
\* it or about to send the response) the source is alive and waiting for
\* that response, so the send finds its receiver.
C39_NeverDisconnected ==
    IsDec
      => /\ bres # Err("Disconnected") /\ outcome # Err("Disconnected")
         /\ (~BackendGone /\ bpc \in {"read", "send"})
              => (tres = Running /\ tpc = "await" /\ responses = <<>>)

C39_Witness ==
    /\ kind = "dec" /\ ~BackendGone /\ bpc = "send"
    /\ cfg.response_channel_limit = 1 /\ Len(buf) = 8
    /\ tres = Running /\ tpc = "await"

\* C40: a BufferSource read of n bytes that fails with PrematureEof leaves
\* the cursor where it was and copies nothing; one that succeeds copies
\* the n bytes at the cursor and advances the cursor by n; the cursor is
\* never past the end of the buffer.
C40_BufferSourceRead ==
    /\ [](kind = "source" => (rpos <= Len(input) /\ got = SubSeq(input, 1, rpos)))
    /\ [][(kind = "source" /\ todo # <<>> /\ todo' = Tail(todo))
            => LET n == Head(todo)
               IN IF rpos + n <= Len(input)
                  THEN /\ tres' = Ok /\ rpos' = rpos + n
                       /\ got' = got \o SubSeq(input, rpos + 1, rpos + n)
                  ELSE /\ tres' = Err("PrematureEof") /\ rpos' = rpos
                       /\ got' = got]_vars

C40_Witness ==
    /\ kind = "source" /\ input = <<1, 2, 3>>
    /\ rpos = 2 /\ got = <<1, 2>> /\ tres = Err("PrematureEof")
    /\ todo = <<1>>

====
